---------------------------- MODULE Spec2Model ----------------------------
(***************************************************************************)
(* The UDP session layer of Hotones (Hotones::Net::NetworkManager) and the *)
(* static-mesh physics backend (Hotones::Physics), further down.           *)
(*                                                                         *)
(* A NetworkManager is one object that can run as a server or as a client. *)
(* Its main thread calls StartServer / StopServer / Connect / Disconnect / *)
(* SendPlayerUpdate / Update; its receive thread runs RecvLoop.  The model *)
(* holds two such objects (nm[1], nm[2]) on two hosts, further peers that  *)
(* are only addresses datagrams come from, and the datagrams in flight.    *)
(* The source has two copies of NetworkManager.cpp; the later one (stored  *)
(* in include/GFX/SceneImporter.hpp) adds the client's CONNECT retry and   *)
(* is the one modelled; the server handlers are the same in both.          *)
(***************************************************************************)
EXTENDS Integers, Sequences, FiniteSets, TLC

(***************************************************************************)
(* Program constants.                                                      *)
(***************************************************************************)
DEFAULT_PORT == 27015
MAX_CONNECT_ATTEMPTS == 15
CONNECT_RETRY_MS == 500
\* uint8_t arithmetic: nextId++ wraps modulo 2^8
U8 == 256
INVALID_SOCK_VAL == -1

(***************************************************************************)
(* Bounds of the model.                                                    *)
(***************************************************************************)
\* The size of the server's slot table.  The program's MAX_PLAYERS is 16;
\* the handlers only ever scan the table, so the model keeps the table's
\* code and checks it with a table of this size.
MAX_PLAYERS == 2
\* most datagrams held by recvQueue (and by Update's local queue)
MaxQueue == 1
\* most slot IDs handed out in one server run (specifications that cap it)
MaxJoins == 3
\* most datagrams in flight between the two NetworkManagers
MaxNet == 2
\* the ephemeral ports the OS may bind a client socket to are 1..MaxPort
MaxPort == 1
\* the clock advances in steps of TickMs
TickMs == 250
\* most datagrams recvQueue holds when a peer sends numbered PINGs
MaxBacklog == 2
\* the PINGs a peer sends are numbered 1..MaxPings
MaxPings == 4

Inst == {1, 2}
HostIp(i) == i
\* peers that are not NetworkManagers of the model: two share an IP
Addr(ip, port) == [ip |-> ip, port |-> port]
Peers == {Addr(3, 1), Addr(3, 2)} \cup {Addr(3 + k, 1) : k \in 1..(MAX_PLAYERS - 1)}
NoAddr == Addr(0, 0)
EphemeralPorts == 1..MaxPort

Min(S) == CHOOSE x \in S : \A y \in S : x <= y

(***************************************************************************)
(* Packets (Packets.hpp).  A datagram carries the packet's bytes (type,    *)
(* playerId, the type's own field, and len, the number of bytes sent) and  *)
(* the addresses the network adds.  pos stands for the five floats of a    *)
(* PLAYER_UPDATE: 0 is "all zero"; in a PING it is PingPacket::seq.        *)
(***************************************************************************)
PacketType == {"CONNECT", "CONNECT_ACK", "DISCONNECT", "PLAYER_UPDATE", "PING"}

SizeOf(type) ==
    CASE type = "HEADER"        -> 2
      [] type = "CONNECT"       -> 18
      [] type = "CONNECT_ACK"   -> 3
      [] type = "DISCONNECT"    -> 2
      [] type = "PLAYER_UPDATE" -> 22
      [] OTHER                  -> 6

Packet(type, playerId, assignedId, pos) ==
    [type |-> type, playerId |-> playerId, assignedId |-> assignedId,
     pos |-> pos, len |-> SizeOf(type)]

Datagram(pkt, from, to) ==
    [type |-> pkt.type, playerId |-> pkt.playerId, assignedId |-> pkt.assignedId,
     pos |-> pkt.pos, len |-> pkt.len, from |-> from, to |-> to]

ConnectPacket == Packet("CONNECT", 0, 0, 0)
ConnectAckPacket(id) == Packet("CONNECT_ACK", id, id, 0)
DisconnectPacket(id) == Packet("DISCONNECT", id, 0, 0)
PlayerUpdatePacket(id, pos) == Packet("PLAYER_UPDATE", id, 0, pos)
PingPacket(seq) == Packet("PING", 0, 0, seq)

(***************************************************************************)
(* State.                                                                  *)
(*   nm[i]   the fields of NetworkManager::Impl of object i, with the      *)
(*           position of its main thread (mpc), of its receive thread      *)
(*           (rpc) and the local queue of a running Update()               *)
(*   net     the datagrams in flight to a NetworkManager of the model, in  *)
(*           the order sent                                                *)
(*   sent    the datagrams the last step sent, in order                    *)
(*   calls   the callbacks the last step invoked, in order                 *)
(*   last    the last step, when it was a dispatch, a datagram got from    *)
(*           recvfrom, or a call of StartServer or Connect: the operation, *)
(*           the object, the datagram and the value returned               *)
(*   hist    per object, the history of its session since Connect() was    *)
(*           called: connects, the CONNECTs sent; sinceConnect, the ms     *)
(*           since the last of them (saturating); acked, a CONNECT_ACK     *)
(*           was dispatched; kicked, a DISCONNECT with the local ID was    *)
(*           dispatched while connected; gaveUp, MAX_CONNECT_ATTEMPTS      *)
(*           CONNECTs were sent before any CONNECT_ACK was dispatched;     *)
(*           addr, the address of its socket; leftId, the local ID with    *)
(*           which Disconnect() was called (0: none) and leftSlot, the     *)
(*           server's slot that held it then; lost, a datagram it sent     *)
(*           was lost; enq, the seq of the last PING its recvfrom returned *)
(*           with at least a header, and deq, of the last PING dispatched  *)
(*   phys    the physics backend: the static-mesh registry, its callers    *)
(*           and the last call made (see "Physics" below)                  *)
(*   player  the body of a Player and what its last tick saw (see "The     *)
(*           movement integrator" below)                                   *)
(***************************************************************************)
VARIABLES nm, net, sent, calls, last, hist, phys, player

vars == <<nm, net, sent, calls, last, hist, phys, player>>

netVars == <<nm, net, sent, calls, last, hist>>

ClientSlot == [active |-> FALSE, addr |-> NoAddr, id |-> 0]

Impl ==
    [socket          |-> INVALID_SOCK_VAL,
     mode            |-> "None",
     running         |-> FALSE,
     recvQueue       |-> <<>>,
     clients         |-> [k \in 1..MAX_PLAYERS |-> ClientSlot],
     nextId          |-> 1,
     serverAddr      |-> NoAddr,
     localId         |-> 0,
     connected       |-> FALSE,
     remotePlayers   |-> <<>>,
     connectAttempts |-> 0,
     \* now - lastConnectAttempt in ms, saturating at CONNECT_RETRY_MS;
     \* lastConnectAttempt starts at the clock's epoch
     sinceAttempt    |-> CONNECT_RETRY_MS,
     mpc             |-> "idle",
     rpc             |-> "none",
     local           |-> <<>>]

ImplFields == DOMAIN Impl

NoHist == [connects |-> 0, sinceConnect |-> CONNECT_RETRY_MS,
           acked |-> FALSE, kicked |-> FALSE, gaveUp |-> FALSE,
           addr |-> NoAddr, leftId |-> 0, leftSlot |-> 0, lost |-> FALSE,
           enq |-> 0, deq |-> 0, stale |-> 0]

NoOp == [op |-> "other", inst |-> 0, arg |-> 0, ret |-> TRUE]

\* no query in progress
NoQuery == [pc |-> "idle", kind |-> "none", handle |-> 0, ptr |-> [buf |-> 0, idx |-> 0],
            start |-> <<0, 0, 0>>, stop |-> <<0, 0, 0>>, radius |-> 0]

\* no call yet; tris are the triangles a Register call was given
NoCall == [op |-> "none", handle |-> 0, ret |-> 0, start |-> <<0, 0, 0>>,
           stop |-> <<0, 0, 0>>, out |-> <<>>, tris |-> <<>>]

\* the file-scope state of the physics backend: g_staticMeshes (with the
\* identity buf and the capacity cap of the vector's allocation),
\* g_nextHandle; the query a second thread is running; the last call that
\* returned and the handles returned so far
\* no BVH is being built; while one is, calls holds the calls of BuildNode
\* that are still to be made, the next one first
NoBuild == [pc |-> "idle", nodes |-> <<>>, tris |-> <<>>, calls |-> <<>>]

PhysInit ==
    [build          |-> NoBuild,
     g_staticMeshes |-> <<>>,
     buf            |-> 0,
     cap            |-> 0,
     g_nextHandle   |-> 1,
     query          |-> NoQuery,
     call           |-> NoCall,
     returned       |-> <<>>]

\* The body of a player is measured in units of 0.001f, the distance by
\* which UpdateBody lifts the body off a surface: 1.0f is Milli units.
Milli == 1000

\* Player(): body = {0}; the scene then puts the body at (0, 5, 0).
\* groundHit: a sweep of the last tick hit a surface with normal.y > 0.5;
\* input: some tick so far was given a movement or jump input;
\* ticked: UpdateBody has run
PlayerInit ==
    [body      |-> [position |-> <<0, 5 * Milli, 0>>, velocity |-> <<0, 0, 0>>,
                    isGrounded |-> FALSE],
     groundHit |-> FALSE,
     input     |-> FALSE,
     ticked    |-> FALSE]

Init ==
    /\ nm = [i \in Inst |-> Impl]
    /\ net = <<>>
    /\ sent = <<>>
    /\ calls = <<>>
    /\ last = NoOp
    /\ hist = [i \in Inst |-> NoHist]
    /\ phys = PhysInit
    /\ player = PlayerInit

(***************************************************************************)
(* A step of object i runs on a context: the object's fields plus the      *)
(* datagrams sent (out) and callbacks invoked (cb) so far in the step.     *)
(***************************************************************************)
Begin(i) == nm[i] @@ [out |-> <<>>, cb |-> <<>>, self |-> i, ret |-> TRUE]

Return(st, value) == [st EXCEPT !.ret = value]

\* the address the object's socket is bound to
LocalAddr(st) == Addr(HostIp(st.self), st.socket)

\* SendRaw: sendto() on the socket; errors are not reported
SendRaw(st, addr, pkt) ==
    IF st.socket = INVALID_SOCK_VAL THEN st
    ELSE [st EXCEPT !.out = Append(@, Datagram(pkt, LocalAddr(st), addr))]

Callback(st, name, id) == [st EXCEPT !.cb = Append(@, [fn |-> name, id |-> id])]

(***************************************************************************)
(* Server side.                                                            *)
(***************************************************************************)
Slots == 1..MAX_PLAYERS

SameAddr(slot, from) ==
    slot.addr.ip = from.ip /\ slot.addr.port = from.port

\* for (auto& slot : clients) if (slot.active && slot.id != excludeId) SendRaw
RECURSIVE BroadcastFrom(_, _, _, _)
BroadcastFrom(st, k, pkt, excludeId) ==
    IF k > MAX_PLAYERS THEN st
    ELSE LET slot == st.clients[k]
             st1 == IF slot.active /\ slot.id # excludeId
                    THEN SendRaw(st, slot.addr, pkt)
                    ELSE st
         IN  BroadcastFrom(st1, k + 1, pkt, excludeId)

Server_Broadcast(st, pkt, excludeId) == BroadcastFrom(st, 1, pkt, excludeId)

\* Server_HandleConnect without the scan for a slot already registered
Server_HandleConnect_NoRescan(st, pkt, from) ==
    LET free == {k \in Slots : ~st.clients[k].active}
    IN  IF free = {} THEN st
        ELSE LET k   == Min(free)
                 id  == st.nextId
                 st1 == [st EXCEPT !.clients[k] = [active |-> TRUE, addr |-> from, id |-> id],
                                   !.nextId = (id + 1) % U8]
                 st2 == SendRaw(st1, from, ConnectAckPacket(id))
                 st3 == Server_Broadcast(st2, PlayerUpdatePacket(id, 0), id)
             IN  Callback(st3, "OnPlayerJoined", id)

\* Server_HandleConnect that answers a CONNECT it has no slot for
Server_HandleConnect_AckWhenFull(st, pkt, from) ==
    LET registered == {k \in Slots : st.clients[k].active /\ SameAddr(st.clients[k], from)}
        free == {k \in Slots : ~st.clients[k].active}
    IN  IF registered # {}
        THEN SendRaw(st, from, ConnectAckPacket(st.clients[Min(registered)].id))
        ELSE IF free = {}
        THEN SendRaw([st EXCEPT !.nextId = (st.nextId + 1) % U8], from,
                     ConnectAckPacket(st.nextId))
        ELSE Server_HandleConnect_NoRescan(st, pkt, from)

Server_HandleConnect(st, pkt, from) ==
    LET registered == {k \in Slots : st.clients[k].active /\ SameAddr(st.clients[k], from)}
        free == {k \in Slots : ~st.clients[k].active}
    IN  IF registered # {}
        THEN \* re-send the ACK of the first slot registered to this address
             SendRaw(st, from, ConnectAckPacket(st.clients[Min(registered)].id))
        ELSE IF free = {}
        THEN st  \* server full
        ELSE LET k   == Min(free)
                 id  == st.nextId
                 st1 == [st EXCEPT !.clients[k] = [active |-> TRUE, addr |-> from, id |-> id],
                                   !.nextId = (id + 1) % U8]
                 st2 == SendRaw(st1, from, ConnectAckPacket(id))
                 st3 == Server_Broadcast(st2, PlayerUpdatePacket(id, 0), id)
             IN  Callback(st3, "OnPlayerJoined", id)

\* Server_HandleDisconnect that finds the slot by the IP of the source alone
Server_HandleDisconnect_ByIp(st, pkt, from) ==
    LET registered == {k \in Slots : st.clients[k].active /\ st.clients[k].addr.ip = from.ip}
    IN  IF registered = {} THEN st
        ELSE LET k   == Min(registered)
                 id  == st.clients[k].id
                 st1 == Server_Broadcast(st, DisconnectPacket(id), id)
                 st2 == Callback(st1, "OnPlayerLeft", id)
             IN  [st2 EXCEPT !.clients[k].active = FALSE]

Server_HandleDisconnect(st, pkt, from) ==
    LET registered == {k \in Slots : st.clients[k].active /\ SameAddr(st.clients[k], from)}
    IN  IF registered = {} THEN st
        ELSE LET k   == Min(registered)
                 id  == st.clients[k].id
                 st1 == Server_Broadcast(st, DisconnectPacket(id), id)
                 st2 == Callback(st1, "OnPlayerLeft", id)
             IN  [st2 EXCEPT !.clients[k].active = FALSE]

\* the slot is matched on its id and on the IP of the source, not its port
Server_HandlePlayerUpdate(st, pkt, from) ==
    LET match == {k \in Slots : /\ st.clients[k].active
                                /\ st.clients[k].id = pkt.playerId
                                /\ st.clients[k].addr.ip = from.ip}
    IN  IF match = {} THEN st
        ELSE Server_Broadcast(st, [pkt EXCEPT !.len = SizeOf("PLAYER_UPDATE")],
                              pkt.playerId)

(***************************************************************************)
(* Client side.  remotePlayers is a function from the IDs it holds to the  *)
(* position last received.                                                 *)
(***************************************************************************)
MapErase(m, id) == [k \in DOMAIN m \ {id} |-> m[k]]
MapPut(m, id, v) == [k \in DOMAIN m \cup {id} |-> IF k = id THEN v ELSE m[k]]

Client_HandleConnectAck(st, pkt) ==
    Callback([st EXCEPT !.localId = pkt.assignedId, !.connected = TRUE],
             "OnPlayerJoined", pkt.assignedId)

Client_HandleDisconnect(st, pkt) ==
    IF pkt.playerId = st.localId
    THEN Callback([st EXCEPT !.connected = FALSE, !.remotePlayers = <<>>],
                  "OnPlayerLeft", st.localId)
    ELSE Callback([st EXCEPT !.remotePlayers = MapErase(@, pkt.playerId)],
                  "OnPlayerLeft", pkt.playerId)

Client_HandlePlayerUpdate(st, pkt) ==
    IF pkt.playerId = st.localId THEN st
    ELSE [st EXCEPT !.remotePlayers = MapPut(@, pkt.playerId, pkt.pos)]

(***************************************************************************)
(* DispatchPacket: by mode, then by type, each behind its length check.    *)
(***************************************************************************)
\* DispatchPacket without the length checks
DispatchPacket_NoLengthCheck(st, rp) ==
    IF st.mode = "Server"
    THEN CASE rp.type = "CONNECT" -> Server_HandleConnect(st, rp, rp.from)
           [] rp.type = "DISCONNECT" -> Server_HandleDisconnect(st, rp, rp.from)
           [] rp.type = "PLAYER_UPDATE" -> Server_HandlePlayerUpdate(st, rp, rp.from)
           [] OTHER -> st
    ELSE IF st.mode = "Client"
    THEN CASE rp.type = "CONNECT_ACK" -> Client_HandleConnectAck(st, rp)
           [] rp.type = "DISCONNECT" -> Client_HandleDisconnect(st, rp)
           [] rp.type = "PLAYER_UPDATE" -> Client_HandlePlayerUpdate(st, rp)
           [] OTHER -> st
    ELSE st

DispatchPacket(st, rp) ==
    IF st.mode = "Server"
    THEN CASE rp.type = "CONNECT" /\ rp.len >= SizeOf("CONNECT") ->
                  Server_HandleConnect(st, rp, rp.from)
           [] rp.type = "DISCONNECT" /\ rp.len >= SizeOf("DISCONNECT") ->
                  Server_HandleDisconnect(st, rp, rp.from)
           [] rp.type = "PLAYER_UPDATE" /\ rp.len >= SizeOf("PLAYER_UPDATE") ->
                  Server_HandlePlayerUpdate(st, rp, rp.from)
           [] OTHER -> st
    ELSE IF st.mode = "Client"
    THEN CASE rp.type = "CONNECT_ACK" /\ rp.len >= SizeOf("CONNECT_ACK") ->
                  Client_HandleConnectAck(st, rp)
           [] rp.type = "DISCONNECT" /\ rp.len >= SizeOf("DISCONNECT") ->
                  Client_HandleDisconnect(st, rp)
           [] rp.type = "PLAYER_UPDATE" /\ rp.len >= SizeOf("PLAYER_UPDATE") ->
                  Client_HandlePlayerUpdate(st, rp)
           [] OTHER -> st
    ELSE st

(***************************************************************************)
(* The public methods, run by the main thread.  A method that waits for    *)
(* the receive thread, or that the receive thread can overtake, is more    *)
(* than one step: mpc is where the main thread stands.                     *)
(***************************************************************************)
Min2(a, b) == IF a <= b THEN a ELSE b

\* InitSocket(port): socket() and bind() may fail (bound = FALSE)
InitSocket(st, port, bound) ==
    IF bound THEN [st EXCEPT !.socket = port] ELSE [st EXCEPT !.socket = INVALID_SOCK_VAL]

CloseSocket(st) == [st EXCEPT !.socket = INVALID_SOCK_VAL]

\* StartServer without the test of running
StartServerCall_NoGuard(st, port, bound) ==
    IF ~bound THEN Return(InitSocket(st, port, FALSE), FALSE)
    ELSE Return([InitSocket(st, port, TRUE) EXCEPT
                    !.mode = "Server",
                    !.nextId = 1,
                    !.clients = [k \in Slots |-> ClientSlot],
                    !.running = TRUE,
                    !.rpc = "loop"], TRUE)

StartServerCall(st, port, bound) ==
    IF st.running THEN Return(st, FALSE)
    ELSE IF ~bound THEN Return(InitSocket(st, port, FALSE), FALSE)
    ELSE Return([InitSocket(st, port, TRUE) EXCEPT
                    !.mode = "Server",
                    !.nextId = 1,
                    !.clients = [k \in Slots |-> ClientSlot],
                    !.running = TRUE,
                    !.rpc = "loop"], TRUE)

\* StopServer up to the join
StopServerCall(st) ==
    IF ~st.running THEN st
    ELSE [st EXCEPT !.running = FALSE, !.mpc = "stop_join"]

\* StopServer from the join on
StopServerJoin(st) ==
    [CloseSocket(st) EXCEPT !.rpc = "none", !.mode = "None", !.mpc = "idle"]

\* Connect up to the start of the receive thread; resolved = FALSE when
\* getaddrinfo fails
ConnectCall(st, host, port, bound, resolved) ==
    IF st.running THEN Return(st, FALSE)
    ELSE IF ~bound THEN Return(InitSocket(st, port, FALSE), FALSE)
    ELSE IF ~resolved THEN Return(CloseSocket(InitSocket(st, port, TRUE)), FALSE)
    ELSE [InitSocket(st, port, TRUE) EXCEPT
             !.serverAddr = host,
             !.mode = "Client",
             !.running = TRUE,
             !.rpc = "loop",
             !.mpc = "connect"]

\* Connect after the start of the receive thread: the initial CONNECT
ConnectSend(st) ==
    Return([SendRaw(st, st.serverAddr, ConnectPacket) EXCEPT
               !.sinceAttempt = 0,
               !.connectAttempts = 1,
               !.mpc = "idle"], TRUE)

\* Disconnect up to the join
DisconnectCall(st) ==
    IF ~st.running THEN st
    ELSE LET st1 == IF st.connected
                    THEN SendRaw(st, st.serverAddr, DisconnectPacket(st.localId))
                    ELSE st
         IN  [st1 EXCEPT !.running = FALSE,
                         !.connected = FALSE,
                         !.localId = 0,
                         !.connectAttempts = 0,
                         !.mpc = "disc_join"]

\* Disconnect from the join on
DisconnectJoin(st) ==
    [CloseSocket(st) EXCEPT !.rpc = "none", !.remotePlayers = <<>>,
                            !.mode = "None", !.mpc = "idle"]

SendPlayerUpdateCall(st, pos) ==
    IF ~st.connected \/ st.mode # "Client" THEN st
    ELSE SendRaw(st, st.serverAddr, PlayerUpdatePacket(st.localId, pos))

\* Update that copies recvQueue instead of swapping it out
UpdateSwap_Copy(st) ==
    [st EXCEPT !.local = st.recvQueue,
               !.mpc = IF st.recvQueue = <<>> THEN "idle" ELSE "update"]

\* Update: the swap of the queues under the mutex
UpdateSwap(st) ==
    [st EXCEPT !.local = st.recvQueue,
               !.recvQueue = <<>>,
               !.mpc = IF st.recvQueue = <<>> THEN "idle" ELSE "update"]

\* Update: one turn of the loop that dispatches the local queue
UpdateDispatch(st) ==
    LET st1 == DispatchPacket(st, Head(st.local))
    IN  [st1 EXCEPT !.local = Tail(st.local),
                    !.mpc = IF Tail(st.local) = <<>> THEN "idle" ELSE "update"]

IsConnected(st) == st.connected
GetLocalId(st) == st.localId
GetMode(st) == st.mode

(***************************************************************************)
(* RecvLoop, run by the receive thread.  rpc is where it stands:           *)
(*   "loop"  at while (running.load())                                     *)
(*   "retry" at the test of the client's retry                             *)
(*   "send"  the test passed: about to send the CONNECT                    *)
(*   "recv"  in recvfrom                                                   *)
(*   "done"  left the loop, not yet joined      "none"  no thread          *)
(***************************************************************************)
\* RecvLoop that does not poll running
RecvLoopTest_NoPoll(st) == [st EXCEPT !.rpc = "retry"]

RecvLoopTest(st) ==
    [st EXCEPT !.rpc = IF st.running THEN "retry" ELSE "done"]

\* RetryDue without the cap on the attempts
RetryDue_NoCap(st) ==
    /\ st.mode = "Client"
    /\ ~st.connected
    /\ st.sinceAttempt >= CONNECT_RETRY_MS

RetryDue(st) ==
    /\ st.mode = "Client"
    /\ ~st.connected
    /\ st.connectAttempts < MAX_CONNECT_ATTEMPTS
    /\ st.sinceAttempt >= CONNECT_RETRY_MS

RecvLoopRetryTest(st) ==
    [st EXCEPT !.rpc = IF RetryDue(st) THEN "send" ELSE "recv"]

RecvLoopRetrySend(st) ==
    [SendRaw(st, st.serverAddr, ConnectPacket) EXCEPT
        !.sinceAttempt = 0,
        !.connectAttempts = st.connectAttempts + 1,
        !.rpc = "recv"]

\* recvfrom returned n <= 0: the 200 ms timeout
RecvLoopTimeout(st) == [st EXCEPT !.rpc = "loop"]

\* recvfrom returned the datagram dg
RecvLoopRecv(st, dg) ==
    IF dg.len < SizeOf("HEADER") THEN [st EXCEPT !.rpc = "loop"]
    ELSE [st EXCEPT !.recvQueue = Append(@, dg), !.rpc = "loop"]

(***************************************************************************)
(* Steps.  Commit(i, st, op, arg, flying) ends a step of object i that ran *)
(* to context st: the fields are stored, the datagrams it sent to a bound  *)
(* socket of the model join those in flight (a datagram to any other       *)
(* address leaves the model; one that finds MaxNet in flight is lost).     *)
(***************************************************************************)
Range(seq) == {seq[k] : k \in DOMAIN seq}

Bound(d) == \E j \in Inst : d.to = Addr(HostIp(j), nm[j].socket)

RECURSIVE Fly(_, _)
Fly(flying, out) ==
    IF out = <<>> THEN flying
    ELSE LET d == Head(out)
         IN  Fly(IF Bound(d) /\ Len(flying) < MaxNet
                 THEN Append(flying, d) ELSE flying, Tail(out))

\* a datagram of out, sent to a socket of the model, did not get in flight
Lost(flying, out) ==
    Len(Fly(flying, out)) < Len(flying) + Len(SelectSeq(out, LAMBDA d : d.to.ip \in Inst))

Remove(seq, n) == [k \in 1..(Len(seq) - 1) |-> IF k < n THEN seq[k] ELSE seq[k + 1]]

Connects(out) == Len(SelectSeq(out, LAMBDA d : d.type = "CONNECT"))

IsAck(pre, op, arg) ==
    /\ op = "Dispatch" /\ pre.mode = "Client"
    /\ arg.type = "CONNECT_ACK" /\ arg.len >= SizeOf("CONNECT_ACK")

IsKick(pre, op, arg) ==
    /\ op = "Dispatch" /\ pre.mode = "Client"
    /\ arg.type = "DISCONNECT" /\ arg.len >= SizeOf("DISCONNECT")
    /\ arg.playerId = pre.localId
    /\ pre.connected

\* the history of the session of object i after a step op from fields pre
\* the slot of the server at address server that holds id for address a
SlotOf(server, id, a) ==
    LET held == {p \in Inst \X Slots :
                   /\ nm[p[1]].mode = "Server"
                   /\ LocalAddr(Begin(p[1])) = server
                   /\ nm[p[1]].clients[p[2]].active
                   /\ nm[p[1]].clients[p[2]].id = id
                   /\ nm[p[1]].clients[p[2]].addr = a}
    IN  IF held = {} THEN 0 ELSE (CHOOSE p \in held : TRUE)[2]

HistAfter(h, pre, st, op, arg, flying) ==
    LET opened == op = "Connect" /\ st.mpc = "connect"
        closed == op \in {"DisconnectJoin", "StopServerJoin"}
        left   == op \in {"Disconnect", "StopServer"} /\ pre.running
        h0 == IF opened THEN [NoHist EXCEPT !.enq = h.enq, !.deq = h.deq]
              ELSE IF closed
              THEN [NoHist EXCEPT !.addr = h.addr, !.leftId = h.leftId,
                                  !.leftSlot = h.leftSlot, !.lost = h.lost,
                                  !.enq = h.enq, !.deq = h.deq]
              ELSE h
        n  == h0.connects + Connects(st.out)
        acked == h0.acked \/ IsAck(pre, op, arg)
    IN  [connects     |-> n,
         sinceConnect |-> IF Connects(st.out) > 0 THEN 0 ELSE h0.sinceConnect,
         acked        |-> acked,
         kicked       |-> h0.kicked \/ IsKick(pre, op, arg),
         gaveUp       |-> ~left /\ (h0.gaveUp \/ (n >= MAX_CONNECT_ATTEMPTS /\ ~acked)),
         addr         |-> IF opened THEN LocalAddr(st) ELSE h0.addr,
         leftId       |-> IF op = "Disconnect" /\ pre.running /\ pre.connected
                          THEN pre.localId ELSE h0.leftId,
         leftSlot     |-> IF op = "Disconnect" /\ pre.running /\ pre.connected
                          THEN SlotOf(pre.serverAddr, pre.localId, LocalAddr(pre @@ [self |-> st.self]))
                          ELSE h0.leftSlot,
         lost         |-> h0.lost \/ Lost(flying, st.out),
         enq          |-> IF /\ op = "RecvLoopRecv" /\ arg.type = "PING"
                             /\ arg.len >= SizeOf("HEADER")
                          THEN arg.pos ELSE h0.enq,
         deq          |-> IF op = "Dispatch" /\ arg.type = "PING"
                          THEN arg.pos ELSE h0.deq,
         \* the datagrams at the head of the queue that were received
         \* before the session began
         stale        |-> IF opened \/ (op = "StartServer" /\ st.running /\ ~pre.running)
                          THEN Len(st.recvQueue) + Len(st.local)
                          ELSE IF op = "Dispatch" /\ h.stale > 0 THEN h.stale - 1
                          ELSE h.stale]

Commit(i, st, op, arg, flying) ==
    /\ nm' = [nm EXCEPT ![i] = [f \in ImplFields |-> st[f]]]
    /\ net' = Fly(flying, st.out)
    /\ sent' = st.out
    /\ calls' = st.cb
    /\ last' = IF op \in {"Dispatch", "StartServer", "Connect", "RecvLoopRecv"}
               THEN [op |-> op, inst |-> i, arg |-> arg, ret |-> st.ret]
               ELSE NoOp
    /\ hist' = [hist EXCEPT ![i] = HistAfter(hist[i], nm[i], st, op, arg, flying)]
    /\ UNCHANGED <<phys, player>>

Idle(i) == nm[i].mpc = "idle"

StartServer(i) ==
    /\ Idle(i)
    /\ \E bound \in BOOLEAN :
          Commit(i, StartServerCall(Begin(i), DEFAULT_PORT, bound), "StartServer", 0, net)

StopServer(i) ==
    /\ Idle(i)
    /\ Commit(i, StopServerCall(Begin(i)), "StopServer", 0, net)

StopServerEnd(i) ==
    /\ nm[i].mpc = "stop_join"
    /\ nm[i].rpc = "done"
    /\ Commit(i, StopServerJoin(Begin(i)), "StopServerJoin", 0, net)

Connect(i, hosts) ==
    /\ Idle(i)
    /\ \E host \in hosts, port \in EphemeralPorts, bound \in BOOLEAN, resolved \in BOOLEAN :
          Commit(i, ConnectCall(Begin(i), host, port, bound, resolved), "Connect", 0, net)

ConnectEnd(i) ==
    /\ nm[i].mpc = "connect"
    /\ Commit(i, ConnectSend(Begin(i)), "ConnectSend", 0, net)

Disconnect(i) ==
    /\ Idle(i)
    /\ Commit(i, DisconnectCall(Begin(i)), "Disconnect", 0, net)

DisconnectEnd(i) ==
    /\ nm[i].mpc = "disc_join"
    /\ nm[i].rpc = "done"
    /\ Commit(i, DisconnectJoin(Begin(i)), "DisconnectJoin", 0, net)

SendPlayerUpdate(i) ==
    /\ Idle(i)
    /\ Commit(i, SendPlayerUpdateCall(Begin(i), 1), "SendPlayerUpdate", 1, net)

Update(i) ==
    /\ Idle(i)
    /\ Commit(i, UpdateSwap(Begin(i)), "Update", 0, net)

Dispatch(i) ==
    /\ nm[i].mpc = "update"
    /\ Commit(i, UpdateDispatch(Begin(i)), "Dispatch", Head(nm[i].local), net)

ThreadTest(i) ==
    /\ nm[i].rpc = "loop"
    /\ Commit(i, RecvLoopTest(Begin(i)), "RecvLoopTest", 0, net)

ThreadRetryTest(i) ==
    /\ nm[i].rpc = "retry"
    /\ Commit(i, RecvLoopRetryTest(Begin(i)), "RecvLoopRetryTest", 0, net)

ThreadRetrySend(i) ==
    /\ nm[i].rpc = "send"
    /\ Commit(i, RecvLoopRetrySend(Begin(i)), "RecvLoopRetrySend", 0, net)

ThreadTimeout(i) ==
    /\ nm[i].rpc = "recv"
    /\ Commit(i, RecvLoopTimeout(Begin(i)), "RecvLoopTimeout", 0, net)

\* the receive thread gets one of the datagrams dgs that peers send
Receive(i, dgs) ==
    /\ nm[i].rpc = "recv"
    /\ Len(nm[i].recvQueue) < MaxQueue
    /\ \E dg \in dgs :
          Commit(i, RecvLoopRecv(Begin(i), [dg EXCEPT !.to = LocalAddr(Begin(i))]),
                 "RecvLoopRecv", dg, net)

\* the receive thread gets the earliest datagram in flight to its socket
Deliver(i) ==
    /\ nm[i].rpc = "recv"
    /\ Len(nm[i].recvQueue) < MaxQueue
    /\ \E n \in DOMAIN net :
          /\ net[n].to = LocalAddr(Begin(i))
          /\ \A m \in 1..(n - 1) : net[m].to # net[n].to
          /\ Commit(i, RecvLoopRecv(Begin(i), net[n]), "RecvLoopRecv", net[n],
                    Remove(net, n))

\* a datagram in flight is lost
Lose ==
    /\ \E n \in DOMAIN net :
          /\ net' = Remove(net, n)
          /\ hist' = [i \in Inst |-> IF net[n].from.ip = HostIp(i)
                                     THEN [hist[i] EXCEPT !.lost = TRUE] ELSE hist[i]]
    /\ sent' = <<>>
    /\ calls' = <<>>
    /\ last' = NoOp
    /\ UNCHANGED <<nm, phys, player>>

Age(ms) == Min2(ms + TickMs, CONNECT_RETRY_MS)

\* TickMs pass
Tick ==
    /\ \E i \in Inst : nm[i].sinceAttempt < CONNECT_RETRY_MS
                          \/ hist[i].sinceConnect < CONNECT_RETRY_MS
    /\ nm' = [i \in Inst |-> [nm[i] EXCEPT !.sinceAttempt = Age(@)]]
    /\ hist' = [i \in Inst |-> [hist[i] EXCEPT !.sinceConnect = Age(@)]]
    /\ sent' = <<>>
    /\ calls' = <<>>
    /\ last' = NoOp
    /\ UNCHANGED <<net, phys, player>>

(***************************************************************************)
(* The server under any traffic: object 1 is started and stopped as a      *)
(* server; peers send it CONNECT, DISCONNECT and PLAYER_UPDATE datagrams.  *)
(***************************************************************************)
From(pkt, from) == Datagram(pkt, from, NoAddr)

ServerTraffic ==
    {From(ConnectPacket, a) : a \in Peers}
    \cup {From(DisconnectPacket(0), a) : a \in Peers}
    \cup {From(PlayerUpdatePacket(id, 1), a) : id \in 1..2, a \in Peers}

\* CONNECTs that can still be given a new ID within MaxJoins
Joinable(i) ==
    nm[i].nextId + Connects(nm[i].recvQueue) + Connects(nm[i].local) <= MaxJoins

\* a peer sends its next datagram when the server has dispatched the last
ServerReceive(i) ==
    /\ nm[i].recvQueue = <<>>
    /\ nm[i].local = <<>>
    /\ Receive(i, {dg \in ServerTraffic : dg.type = "CONNECT" => Joinable(i)})

NextServer ==
    \/ StartServer(1)
    \/ StopServer(1)
    \/ StopServerEnd(1)
    \/ Update(1)
    \/ Dispatch(1)
    \/ ThreadTest(1)
    \/ ThreadRetryTest(1)
    \/ ThreadTimeout(1)
    \/ ServerReceive(1)

SpecServer == Init /\ [][NextServer]_vars

(***************************************************************************)
(* Properties of the server's handlers.  A dispatch is the step whose      *)
(* last'.op is "Dispatch": last'.arg is the datagram, nm[i] the fields     *)
(* before it, nm'[i] after it, sent' and calls' what it sent and invoked.  *)
(***************************************************************************)
Dispatches(i, type) ==
    /\ last'.op = "Dispatch"
    /\ last'.inst = i
    /\ last'.arg.type = type
    /\ last'.arg.len >= SizeOf(type)

Holders(st, a) == {k \in Slots : st.clients[k].active /\ st.clients[k].addr = a}

ActiveSlots(st) == {k \in Slots : st.clients[k].active}

ServerAddr(i) == Addr(HostIp(i), nm[i].socket)

\* C1: a CONNECT from an address that holds an active slot allocates no
\* slot, leaves nextId, sends one CONNECT_ACK with the slot's ID to that
\* address and nothing else, and invokes no callback; such an address
\* never holds more than one slot.
C1_IdempotentConnect ==
    [][\A i \in Inst :
          (/\ Dispatches(i, "CONNECT")
           /\ nm[i].mode = "Server"
           /\ Holders(nm[i], last'.arg.from) # {})
          => /\ nm'[i].clients = nm[i].clients
             /\ nm'[i].nextId = nm[i].nextId
             /\ Cardinality(Holders(nm[i], last'.arg.from)) = 1
             /\ \E k \in Holders(nm[i], last'.arg.from) :
                   sent' = <<Datagram(ConnectAckPacket(nm[i].clients[k].id),
                                      ServerAddr(i), last'.arg.from)>>
             /\ calls' = <<>>]_vars

\* a second CONNECT of a registered address was answered
C1_Witness ==
    /\ last.op = "Dispatch"
    /\ last.arg.type = "CONNECT"
    /\ nm[1].mode = "Server"
    /\ Len(sent) = 1
    /\ sent[1].type = "CONNECT_ACK"
    /\ sent[1].to = last.arg.from
    /\ calls = <<>>

\* C4 as claimed: a PLAYER_UPDATE is relayed only if an active slot has the
\* header's playerId and the source's address and port.
C4_SenderCheck ==
    [][\A i \in Inst :
          (/\ Dispatches(i, "PLAYER_UPDATE")
           /\ nm[i].mode = "Server"
           /\ sent' # <<>>)
          => \E k \in Holders(nm[i], last'.arg.from) :
                nm[i].clients[k].id = last'.arg.playerId]_vars

\* C6: with every slot active, a CONNECT from an address that holds no slot
\* changes no slot, leaves nextId, sends nothing and invokes no callback;
\* never more than MAX_PLAYERS slots are active.
C6_PlayerCap ==
    [][\A i \in Inst :
          /\ Cardinality(ActiveSlots(nm'[i])) <= MAX_PLAYERS
          /\ (/\ Dispatches(i, "CONNECT")
              /\ nm[i].mode = "Server"
              /\ ActiveSlots(nm[i]) = Slots
              /\ Holders(nm[i], last'.arg.from) = {})
             => /\ nm'[i].clients = nm[i].clients
                /\ nm'[i].nextId = nm[i].nextId
                /\ sent' = <<>>
                /\ calls' = <<>>]_vars

\* a CONNECT was refused by a full server
C6_Witness ==
    /\ last.op = "Dispatch"
    /\ last.arg.type = "CONNECT"
    /\ nm[1].mode = "Server"
    /\ ActiveSlots(nm[1]) = Slots
    /\ Holders(nm[1], last.arg.from) = {}
    /\ sent = <<>>

(***************************************************************************)
(* The server over a long run: one peer joins among the first MaxJoins and *)
(* stays, another joins and leaves without end, so nextId runs through     *)
(* every value of its type.                                                *)
(***************************************************************************)
Stayer == Addr(3, 1)
Comer == Addr(4, 1)

WrapTraffic(i) ==
    {From(ConnectPacket, Stayer) : x \in {1} \cap (IF Joinable(i) THEN {1} ELSE {})}
    \cup {From(ConnectPacket, Comer),
          From(DisconnectPacket(0), Comer),
          From(PlayerUpdatePacket(1, 1), Comer)}

WrapReceive(i) ==
    /\ nm[i].recvQueue = <<>>
    /\ nm[i].local = <<>>
    /\ Receive(i, WrapTraffic(i))

NextWrap ==
    \/ StartServer(1)
    \/ Update(1)
    \/ Dispatch(1)
    \/ ThreadTest(1)
    \/ ThreadRetryTest(1)
    \/ ThreadTimeout(1)
    \/ WrapReceive(1)

SpecWrap == Init /\ [][NextWrap]_vars

\* C5 as claimed: every ID held by an active slot, and so every ID sent in
\* a CONNECT_ACK, lies in 1..254.
C5_IdRange ==
    \A i \in Inst :
       /\ \A k \in ActiveSlots(nm[i]) : nm[i].clients[k].id \in 1..254
       /\ \A n \in DOMAIN sent :
             sent[n].type = "CONNECT_ACK" => sent[n].assignedId \in 1..254

\* C2 as claimed: an accepted PLAYER_UPDATE of player X goes once to the
\* address of every active slot but X's, and not to X's.
C2_BroadcastExclusion ==
    [][\A i \in Inst :
          (/\ Dispatches(i, "PLAYER_UPDATE")
           /\ nm[i].mode = "Server")
          => \A x \in {k \in ActiveSlots(nm[i]) :
                          /\ nm[i].clients[k].id = last'.arg.playerId
                          /\ nm[i].clients[k].addr.ip = last'.arg.from.ip} :
                /\ \A k \in ActiveSlots(nm[i]) \ {x} :
                      Cardinality({n \in DOMAIN sent' :
                                      sent'[n].to = nm[i].clients[k].addr}) = 1
                /\ \A n \in DOMAIN sent' :
                      /\ sent'[n].to # nm[i].clients[x].addr
                      /\ sent'[n].type = "PLAYER_UPDATE"
                      /\ sent'[n].playerId = last'.arg.playerId
                      /\ sent'[n].pos = last'.arg.pos]_vars

(***************************************************************************)
(* The client under any traffic: object 2 connects to the server's address *)
(* and disconnects; the server is a peer that sends it CONNECT_ACK,        *)
(* DISCONNECT and PLAYER_UPDATE datagrams at any time.                     *)
(***************************************************************************)
TheServer == Addr(HostIp(1), DEFAULT_PORT)

ClientTraffic ==
    {From(ConnectAckPacket(1), TheServer)}
    \cup {From(DisconnectPacket(id), TheServer) : id \in 0..2}
    \cup {From(PlayerUpdatePacket(2, 1), TheServer)}

\* the server sends its next datagram when the client has dispatched the last
ClientReceive(i) ==
    /\ nm[i].recvQueue = <<>>
    /\ nm[i].local = <<>>
    /\ Receive(i, ClientTraffic)

\* the application calls Connect() when it is not connected or connecting
ClientConnect(i) ==
    /\ ~nm[i].running
    /\ Connect(i, {TheServer})

NextClient ==
    \/ ClientConnect(2)
    \/ ConnectEnd(2)
    \/ Disconnect(2)
    \/ DisconnectEnd(2)
    \/ Update(2)
    \/ Dispatch(2)
    \/ ThreadTest(2)
    \/ ThreadRetryTest(2)
    \/ ThreadRetrySend(2)
    \/ ThreadTimeout(2)
    \/ ClientReceive(2)
    \/ Tick

SpecClient == Init /\ [][NextClient]_vars

(***************************************************************************)
(* Properties of the client's session.                                     *)
(***************************************************************************)
\* the step is the receive thread sending a CONNECT retry
Retries(i) == nm[i].rpc = "send" /\ nm'[i].rpc = "recv"

C8_KickEndsSession ==
    \A i \in Inst :
       hist[i].kicked => /\ ~IsConnected(nm[i])
                         /\ nm[i].remotePlayers = <<>>
                         /\ Connects(sent) = 0

GivenUp(st) ==
    /\ st.mode = "Client"
    /\ st.running
    /\ st.mpc # "connect"
    /\ st.connectAttempts = MAX_CONNECT_ATTEMPTS

ThePeer == Addr(HostIp(2), DEFAULT_PORT)

RolesTraffic ==
    {From(ConnectPacket, ThePeer),
     From(ConnectAckPacket(1), ThePeer),
     From(DisconnectPacket(1), ThePeer),
     From(PlayerUpdatePacket(1, 1), ThePeer)}

RolesReceive(i) ==
    /\ nm[i].recvQueue = <<>>
    /\ nm[i].local = <<>>
    /\ Receive(i, {dg \in RolesTraffic : dg.type = "CONNECT" => Joinable(i)})

Next ==
    \/ StartServer(1)
    \/ StopServer(1)
    \/ StopServerEnd(1)
    \/ Connect(1, {ThePeer})
    \/ ConnectEnd(1)
    \/ Disconnect(1)
    \/ DisconnectEnd(1)
    \/ SendPlayerUpdate(1)
    \/ Update(1)
    \/ Dispatch(1)
    \/ ThreadTest(1)
    \/ ThreadRetryTest(1)
    \/ ThreadRetrySend(1)
    \/ ThreadTimeout(1)
    \/ RolesReceive(1)

Spec == Init /\ [][Next]_vars

\* the step is a call of StartServer() or Connect() on object i
Starts(i) == last'.op \in {"StartServer", "Connect"} /\ last'.inst = i

\* C10: mode is None, Server or Client; it turns Server only in a call of
\* StartServer() that returns true and Client only in a call of Connect()
\* that does not return false; a call of either while a role runs returns
\* false and changes no field of the object.
C10_RolesExclusive ==
    [][\A i \in Inst :
          /\ GetMode(nm'[i]) \in {"None", "Server", "Client"}
          /\ (GetMode(nm'[i]) = "Server" /\ GetMode(nm[i]) # "Server")
                => last' = [op |-> "StartServer", inst |-> i, arg |-> 0, ret |-> TRUE]
          /\ (GetMode(nm'[i]) = "Client" /\ GetMode(nm[i]) # "Client")
                => last' = [op |-> "Connect", inst |-> i, arg |-> 0, ret |-> TRUE]
          /\ (Starts(i) /\ GetMode(nm[i]) # "None")
                => /\ last'.ret = FALSE
                   /\ nm'[i] = nm[i]
                   /\ sent' = <<>>]_vars

\* Connect() was refused on a running server, or StartServer() on a client
C10_Witness ==
    /\ last.ret = FALSE
    /\ \/ last.op = "Connect" /\ GetMode(nm[1]) = "Server" /\ ActiveSlots(nm[1]) # {}
       \/ last.op = "StartServer" /\ GetMode(nm[1]) = "Client" /\ IsConnected(nm[1])

(***************************************************************************)
(* A session: object 1 runs the server, object 2 connects to it and        *)
(* disconnects, over a network that delivers every datagram, in order; a   *)
(* newcomer sends the server a CONNECT.  Time passes while the client is   *)
(* connected.                                                              *)
(***************************************************************************)
Newcomer == Addr(3, 1)

SessionStart(i) ==
    /\ ~nm[i].running
    /\ StartServer(i)

SessionConnect(i) ==
    /\ ~nm[i].running
    /\ nm[1].socket = DEFAULT_PORT
    /\ Joinable(1)
    /\ hist[i].leftId = 0
    /\ Connect(i, {TheServer})

NewcomerReceive(i) ==
    /\ nm[i].recvQueue = <<>>
    /\ nm[i].local = <<>>
    /\ Joinable(i)
    /\ Receive(i, {From(ConnectPacket, Newcomer)})

SessionTick ==
    /\ nm[2].connected
    /\ Tick

NextSession ==
    \/ SessionStart(1)
    \/ SessionConnect(2)
    \/ ConnectEnd(2)
    \/ Disconnect(2)
    \/ DisconnectEnd(2)
    \/ \E i \in Inst : Update(i)
    \/ \E i \in Inst : Dispatch(i)
    \/ \E i \in Inst : ThreadTest(i)
    \/ \E i \in Inst : ThreadRetryTest(i)
    \/ \E i \in Inst : ThreadTimeout(i)
    \/ ThreadRetrySend(2)
    \/ \E i \in Inst : Deliver(i)
    \/ NewcomerReceive(1)
    \/ SessionTick

SpecSession == Init /\ [][NextSession]_vars

\* no datagram of address a is in flight, queued or being dispatched
Settled(a) ==
    /\ \A n \in DOMAIN net : net[n].from # a
    /\ \A i \in Inst : /\ \A n \in DOMAIN nm[i].recvQueue : nm[i].recvQueue[n].from # a
                       /\ \A n \in DOMAIN nm[i].local : nm[i].local[n].from # a

\* C3 as claimed: when the client has called Disconnect() with the ID N > 0
\* the server gave it, Disconnect() has returned and every datagram of the
\* client has been delivered and dispatched, the server's slot that held N
\* is inactive or allocated to a new address, and no active slot holds N or
\* is registered to the client that left.
C3_JoinLeaveRoundTrip ==
    (/\ hist[2].leftSlot > 0
     /\ nm[2].mode = "None"
     /\ ~hist[2].lost
     /\ nm[1].mode = "Server"
     /\ Settled(hist[2].addr))
    => /\ nm[1].clients[hist[2].leftSlot].active
             => nm[1].clients[hist[2].leftSlot].addr # hist[2].addr
       /\ \A k \in ActiveSlots(nm[1]) :
             /\ nm[1].clients[k].id # hist[2].leftId
             /\ nm[1].clients[k].addr # hist[2].addr

(***************************************************************************)
(* One NetworkManager in either role under malformed traffic: a peer sends *)
(* it datagrams of every type code, whole, cut short of the type's struct  *)
(* and cut short of the header.                                            *)
(***************************************************************************)
Truncated(pkt, len) == [pkt EXCEPT !.len = len]

WholePackets ==
    {ConnectPacket, ConnectAckPacket(1), DisconnectPacket(1),
     PlayerUpdatePacket(1, 1), Packet("PING", 1, 0, 0)}

MalformedTraffic ==
    {From(Truncated(pkt, len), ThePeer) :
        pkt \in WholePackets,
        len \in {SizeOf("HEADER") - 1, SizeOf("HEADER"), SizeOf("CONNECT")}}

MalformedReceive(i) ==
    /\ nm[i].recvQueue = <<>>
    /\ nm[i].local = <<>>
    /\ Receive(i, {dg \in MalformedTraffic : dg.type = "CONNECT" => Joinable(i)})

NextMalformed ==
    \/ StartServer(1)
    \/ StopServer(1)
    \/ StopServerEnd(1)
    \/ Connect(1, {ThePeer})
    \/ ConnectEnd(1)
    \/ Disconnect(1)
    \/ DisconnectEnd(1)
    \/ Update(1)
    \/ Dispatch(1)
    \/ ThreadTest(1)
    \/ ThreadRetryTest(1)
    \/ ThreadRetrySend(1)
    \/ ThreadTimeout(1)
    \/ MalformedReceive(1)

SpecMalformed == Init /\ [][NextMalformed]_vars

\* the types DispatchPacket has a case for in the role
Handled(mode) ==
    CASE mode = "Server" -> {"CONNECT", "DISCONNECT", "PLAYER_UPDATE"}
      [] mode = "Client" -> {"CONNECT_ACK", "DISCONNECT", "PLAYER_UPDATE"}
      [] OTHER -> {}

Malformed(mode, dg) == dg.type \notin Handled(mode) \/ dg.len < SizeOf(dg.type)

\* C11: a datagram shorter than the header is not enqueued (no queue ever
\* holds one); the dispatch of a datagram shorter than the struct of its
\* type, or of a type the role has no case for, changes no slot, no client
\* state and no remote player, sends nothing and invokes no callback.
C11_MalformedDropped ==
    [][\A i \in Inst :
          /\ (/\ last'.op = "RecvLoopRecv" /\ last'.inst = i
              /\ last'.arg.len < SizeOf("HEADER"))
             => nm'[i].recvQueue = nm[i].recvQueue
          /\ \A n \in DOMAIN nm'[i].recvQueue :
                nm'[i].recvQueue[n].len >= SizeOf("HEADER")
          /\ (/\ last'.op = "Dispatch" /\ last'.inst = i
              /\ Malformed(nm[i].mode, last'.arg))
             => /\ nm'[i].clients = nm[i].clients
                /\ nm'[i].nextId = nm[i].nextId
                /\ nm'[i].connected = nm[i].connected
                /\ nm'[i].localId = nm[i].localId
                /\ nm'[i].remotePlayers = nm[i].remotePlayers
                /\ nm'[i].mode = nm[i].mode
                /\ sent' = <<>>
                /\ calls' = <<>>]_vars

\* a server with a free slot has dispatched a CONNECT cut short of the
\* ConnectPacket struct and allocated nothing
C11_Witness ==
    /\ last.op = "Dispatch"
    /\ last.arg.type = "CONNECT"
    /\ last.arg.len < SizeOf("CONNECT")
    /\ nm[1].mode = "Server"
    /\ ActiveSlots(nm[1]) = {}
    /\ sent = <<>>
    /\ calls = <<>>

(***************************************************************************)
(* The receive queue: a server whose peer sends PINGs numbered 1, 2, ...   *)
(* (PingPacket::seq) while the application calls Update(), StopServer()    *)
(* and StartServer() at any time.  Up to MaxBacklog datagrams wait in      *)
(* recvQueue.                                                              *)
(***************************************************************************)
PingReceive(i) ==
    /\ nm[i].rpc = "recv"
    /\ Len(nm[i].recvQueue) < MaxBacklog
    /\ hist[i].enq < MaxPings
    /\ LET dg == Datagram(PingPacket(hist[i].enq + 1), ThePeer, LocalAddr(Begin(i)))
       IN  Commit(i, RecvLoopRecv(Begin(i), dg), "RecvLoopRecv", dg, net)

NextQueue ==
    \/ StartServer(1)
    \/ StopServer(1)
    \/ StopServerEnd(1)
    \/ Update(1)
    \/ Dispatch(1)
    \/ ThreadTest(1)
    \/ ThreadRetryTest(1)
    \/ ThreadTimeout(1)
    \/ PingReceive(1)

SpecQueue == Init /\ [][NextQueue]_vars

\* the seqs of the PINGs of a queue, in its order
Seqs(queue) == [n \in DOMAIN queue |-> queue[n].pos]

\* C12: the datagrams waiting (those Update() swapped out and has not yet
\* dispatched, then those in recvQueue) are exactly the datagrams enqueued
\* and not yet dispatched, each once, in the order enqueued: none is lost,
\* none dispatched twice, and each dispatch takes the earliest.
C12_ExactlyOnce ==
    \A i \in Inst :
       /\ hist[i].deq <= hist[i].enq
       /\ Seqs(nm[i].local \o nm[i].recvQueue)
             = [n \in 1..(hist[i].enq - hist[i].deq) |-> hist[i].deq + n]

\* Update() swapped out PINGs 1 and 2 and has dispatched the first, while
\* the receive thread pushed the third
C12_Witness ==
    /\ last.op = "Dispatch"
    /\ last.arg.pos = 1
    /\ hist[1].deq = 1
    /\ Seqs(nm[1].local) = <<2>>
    /\ Seqs(nm[1].recvQueue) = <<3>>
    /\ nm[1].mpc = "update"

(***************************************************************************)
(* Thread confinement.  A step of the receive thread is one that moves rpc *)
(* from a position inside RecvLoop; the session variables are the fields   *)
(* the main thread writes in Connect(), Disconnect() and the handlers that *)
(* Update() dispatches to (sinceAttempt stands for lastConnectAttempt).    *)
(***************************************************************************)
ThreadStep(i) ==
    /\ nm[i].rpc \in {"loop", "retry", "send", "recv"}
    /\ nm'[i].rpc # nm[i].rpc

SessionFields ==
    {"connected", "localId", "connectAttempts", "sinceAttempt", "clients",
     "nextId", "remotePlayers", "mode", "serverAddr"}

\* C13 as claimed: no step of the receive thread writes a session variable;
\* it writes only recvQueue (and reads running).
C13_ThreadConfinement ==
    [][\A i \in Inst :
          ThreadStep(i) => \A f \in SessionFields : nm'[i][f] = nm[i][f]]_vars

(***************************************************************************)
(* Shutdown.  The application of the one NetworkManager calls any method   *)
(* at any time (Next); the receive thread is scheduled, every recvfrom     *)
(* call returns (SO_RCVTIMEO, 200 ms), and a join returns once the thread  *)
(* has left RecvLoop.                                                      *)
(***************************************************************************)
SpecShutdown ==
    /\ Init
    /\ [][Next]_vars
    /\ WF_vars(ThreadTest(1))
    /\ WF_vars(ThreadRetryTest(1))
    /\ WF_vars(ThreadRetrySend(1))
    /\ WF_vars(ThreadTimeout(1))
    /\ WF_vars(StopServerEnd(1))
    /\ WF_vars(DisconnectEnd(1))

\* the main thread is inside StopServer() or Disconnect(), running is false
Joining(st) == st.mpc \in {"stop_join", "disc_join"}

\* C14: once StopServer() or Disconnect() has set running to false, the
\* receive thread leaves the loop and the call returns; when it returns mode
\* is None and the socket is closed, and while no receive thread exists no
\* datagram is enqueued.
C14_ShutdownTerminates ==
    /\ \A i \in Inst : Joining(nm[i]) ~> (nm[i].mpc = "idle" /\ nm[i].rpc = "none")
    /\ [][\A i \in Inst :
             /\ (Joining(nm[i]) /\ ~Joining(nm'[i]))
                => /\ nm[i].rpc = "done"
                   /\ nm'[i].rpc = "none"
                   /\ GetMode(nm'[i]) = "None"
                   /\ nm'[i].socket = INVALID_SOCK_VAL
                   /\ ~nm'[i].running
             /\ (nm[i].rpc \in {"done", "none"} /\ nm'[i].rpc \in {"done", "none"})
                => Len(nm'[i].recvQueue) <= Len(nm[i].recvQueue)]_vars

\* Disconnect() of a connected client, or StopServer() of a server with a
\* player, has returned
C14_Witness ==
    /\ nm[1].mpc = "idle"
    /\ nm[1].rpc = "none"
    /\ GetMode(nm[1]) = "None"
    /\ nm[1].socket = INVALID_SOCK_VAL
    /\ \/ hist[1].leftId > 0
       \/ ActiveSlots(nm[1]) # {}

(***************************************************************************)
(* Physics (Physics/PhysicsSystem.cpp): the BVH over a mesh's triangles    *)
(* and the registry of static meshes.                                      *)
(*                                                                         *)
(* A Vector3 is a triple of integers (the model's vertices lie on a        *)
(* lattice).  A Tri holds its vertices and centroid3, three times its      *)
(* centroid (the code's centroid is (a + b + c) * (1/3)), so that the      *)
(* comparisons of the median split are exact.  Indices into nodes and tris *)
(* are the code's, from 0; element k of the vector is seq[k + 1].          *)
(***************************************************************************)
v3add(a, b) == <<a[1] + b[1], a[2] + b[2], a[3] + b[3]>>
v3sub(a, b) == <<a[1] - b[1], a[2] - b[2], a[3] - b[3]>>
v3dot(a, b) == a[1] * b[1] + a[2] * b[2] + a[3] * b[3]

fminf(x, y) == IF x < y THEN x ELSE y
fmaxf(x, y) == IF x > y THEN x ELSE y

v3min(a, b) == <<fminf(a[1], b[1]), fminf(a[2], b[2]), fminf(a[3], b[3])>>
v3max(a, b) == <<fmaxf(a[1], b[1]), fmaxf(a[2], b[2]), fmaxf(a[3], b[3])>>

\* addTri: the triangle of three vertices of a mesh, moved by position
Tri(a, b, c, position) ==
    LET ta == v3add(a, position)
        tb == v3add(b, position)
        tc == v3add(c, position)
    IN  [a |-> ta, b |-> tb, c |-> tc, centroid3 |-> v3add(ta, v3add(tb, tc))]

TriAabbMin(t) == v3min(t.a, v3min(t.b, t.c))
TriAabbMax(t) == v3max(t.a, v3max(t.b, t.c))

\* a loop that leaves the box at the first triangle's
AabbOver_First(tris, i, end, box) == box

\* the loop of BuildNode that grows the box over tris[i..end)
RECURSIVE AabbOver(_, _, _, _)
AabbOver(tris, i, end, box) ==
    IF i >= end THEN box
    ELSE AabbOver(tris, i + 1, end,
                  [bmin |-> v3min(box.bmin, TriAabbMin(tris[i + 1])),
                   bmax |-> v3max(box.bmax, TriAabbMax(tris[i + 1]))])

\* the sum of the centroids of tris[i..end) on the axis (three times mid * count)
RECURSIVE CentroidSum(_, _, _, _)
CentroidSum(tris, i, end, axis) ==
    IF i >= end THEN 0
    ELSE tris[i + 1].centroid3[axis + 1] + CentroidSum(tris, i + 1, end, axis)

\* the predicate of the partition: c[axis] < mid, with mid = sum / count
BelowMid(t, axis, sum, count) == t.centroid3[axis + 1] * count < sum

\* an exchange that loses the element at i
Swap_Overwrite(seq, i, j) == [seq EXCEPT ![i + 1] = seq[j + 1]]

\* std::iter_swap
Swap(seq, i, j) == [seq EXCEPT ![i + 1] = seq[j + 1], ![j + 1] = seq[i + 1]]

\* std::partition over [lo, hi) for bidirectional iterators: the
\* elements that satisfy the predicate are moved before the others by
\* swaps from both ends; mid is the partition point
RECURSIVE Partition(_, _, _, _, _, _)
Partition(tris, lo, hi, axis, sum, count) ==
    IF lo = hi THEN [tris |-> tris, mid |-> lo]
    ELSE IF BelowMid(tris[lo + 1], axis, sum, count)
    THEN Partition(tris, lo + 1, hi, axis, sum, count)
    ELSE IF lo = hi - 1 THEN [tris |-> tris, mid |-> lo]
    ELSE IF ~BelowMid(tris[hi], axis, sum, count)
    THEN Partition(tris, lo, hi - 1, axis, sum, count)
    ELSE Partition(Swap(tris, lo, hi - 1), lo + 1, hi - 1, axis, sum, count)

LongestAxis(ext) ==
    IF ext[1] > ext[2] /\ ext[1] > ext[3] THEN 0
    ELSE IF ext[2] > ext[3] THEN 1 ELSE 2

\* the largest number of triangles of a leaf
LeafSize == 4

\* a split that stays at the partition point when one side is empty
Split_AtPartition(mid, start, end) == mid

\* the split of [start, end) after a partition with the partition point mid
Split(mid, start, end) ==
    IF mid = start \/ mid = end THEN start + (end - start) \div 2 ELSE mid

\* BuildNode(start, end) on the BVH b = [nodes, tris]: the BVH after it,
\* with idx the index of the node it made
RECURSIVE BuildNode(_, _, _)
BuildNode(b, start, end) ==
    LET nodeIdx == Len(b.nodes)
        first == b.tris[start + 1]
        box == AabbOver(b.tris, start + 1, end,
                        [bmin |-> TriAabbMin(first), bmax |-> TriAabbMax(first)])
        count == end - start
    IN  IF count <= LeafSize
        THEN [nodes |-> Append(b.nodes, [bmin |-> box.bmin, bmax |-> box.bmax,
                                         triStart |-> start, triCount |-> count,
                                         rightChild |-> -1]),
              tris |-> b.tris,
              idx |-> nodeIdx]
        ELSE LET axis == LongestAxis(v3sub(box.bmax, box.bmin))
                 sum == CentroidSum(b.tris, start, end, axis)
                 parted == Partition(b.tris, start, end, axis, sum, count)
                 split == Split(parted.mid, start, end)
                 node == [bmin |-> box.bmin, bmax |-> box.bmax,
                          triStart |-> -1, triCount |-> 0, rightChild |-> -1]
                 left == BuildNode([nodes |-> Append(b.nodes, node), tris |-> parted.tris],
                                   start, split)
                 right == BuildNode([nodes |-> left.nodes, tris |-> left.tris], split, end)
             IN  [nodes |-> [right.nodes EXCEPT ![nodeIdx + 1].rightChild = right.idx],
                  tris |-> right.tris,
                  idx |-> nodeIdx]

EmptyBVH == [nodes |-> <<>>, tris |-> <<>>]

\* BVH::Build on a fresh BVH
Build(inTris) ==
    IF inTris = <<>> THEN [nodes |-> <<>>, tris |-> inTris]
    ELSE LET built == BuildNode([nodes |-> <<>>, tris |-> inTris], 0, Len(inTris))
         IN  [nodes |-> built.nodes, tris |-> built.tris]

\* One call BuildNode(start, end) up to its recursive calls, on the build
\* bd: the node is appended, and for more than LeafSize triangles the range
\* is partitioned and the calls for the left and the right part are put
\* before the calls still to be made.  parent is the node whose rightChild
\* is the value this call returns, -1 if none (the root, a left child).
BuildNodeCall(bd) ==
    LET call    == Head(bd.calls)
        start   == call.start
        end     == call.end
        nodeIdx == Len(bd.nodes)
        first   == bd.tris[start + 1]
        box     == AabbOver(bd.tris, start + 1, end,
                            [bmin |-> TriAabbMin(first), bmax |-> TriAabbMax(first)])
        count   == end - start
        linked  == IF call.parent = -1 THEN bd.nodes
                   ELSE [bd.nodes EXCEPT ![call.parent + 1].rightChild = nodeIdx]
    IN  IF count <= LeafSize
        THEN [bd EXCEPT !.nodes = Append(linked, [bmin |-> box.bmin, bmax |-> box.bmax,
                                                  triStart |-> start, triCount |-> count,
                                                  rightChild |-> -1]),
                        !.calls = Tail(bd.calls)]
        ELSE LET axis   == LongestAxis(v3sub(box.bmax, box.bmin))
                 sum    == CentroidSum(bd.tris, start, end, axis)
                 parted == Partition(bd.tris, start, end, axis, sum, count)
                 split  == Split(parted.mid, start, end)
             IN  [bd EXCEPT !.nodes = Append(linked, [bmin |-> box.bmin, bmax |-> box.bmax,
                                                      triStart |-> -1, triCount |-> 0,
                                                      rightChild |-> -1]),
                            !.tris = parted.tris,
                            !.calls = <<[start |-> start, end |-> split, parent |-> -1],
                                        [start |-> split, end |-> end, parent |-> nodeIdx]>>
                                      \o Tail(bd.calls)]

(***************************************************************************)
(* Queries.  A parameter t of a sweep is counted in units of 1e-6 (Micro). *)
(* The analytic tests of SweepSphereTriangle (face, edge capsules, vertex  *)
(* spheres) and the distance test of PenetrationNodeBVH are floating-point *)
(* geometry: the model takes their outcome per triangle from analytic, any *)
(* function from the triangles to an outcome [t, n, overlap, push], where  *)
(* t is bestT after the three tests and n is bestN.  Everything around     *)
(* them (the guard of the degenerate segment, the bound on t, the boxes,   *)
(* the traversal) is the code's.                                           *)
(***************************************************************************)
Micro == 1000000
\* 1.f + 1e-6f
OnePlusEps == Micro + 1
FLT_MAX == 2147483647

UnitY == <<0, 1, 0>>
Zero3 == <<0, 0, 0>>

v3scale(a, k) == <<a[1] * k, a[2] * k, a[3] * k>>

\* SweepSphereTriangle without the guard of the degenerate segment
SweepSphereTriangle_NoGuard(start, end, radius, tri, analytic) ==
    IF analytic[tri].t > OnePlusEps THEN [t |-> FLT_MAX, n |-> UnitY]
    ELSE [t |-> analytic[tri].t, n |-> analytic[tri].n]

\* on the lattice segLen < 1e-10 holds exactly when end = start
SweepSphereTriangle(start, end, radius, tri, analytic) ==
    LET d == v3sub(end, start)
    IN  IF v3dot(d, d) = 0 THEN [t |-> FLT_MAX, n |-> UnitY]
        ELSE IF analytic[tri].t > OnePlusEps THEN [t |-> FLT_MAX, n |-> UnitY]
        ELSE [t |-> analytic[tri].t, n |-> analytic[tri].n]

AabbOverlap(bmin, bmax, qmin, qmax) ==
    /\ bmin[1] <= qmax[1] /\ bmax[1] >= qmin[1]
    /\ bmin[2] <= qmax[2] /\ bmax[2] >= qmin[2]
    /\ bmin[3] <= qmax[3] /\ bmax[3] >= qmin[3]

\* the loop of SweepNodeBVH over the triangles [i, end) of a leaf
RECURSIVE SweepLeaf(_, _, _, _, _, _, _, _)
SweepLeaf(bvh, i, end, start, stop, radius, best, analytic) ==
    IF i >= end THEN best
    ELSE LET hit == SweepSphereTriangle(start, stop, radius, bvh.tris[i + 1], analytic)
         IN  SweepLeaf(bvh, i + 1, end, start, stop, radius,
                       IF hit.t < best.t THEN hit ELSE best, analytic)

RECURSIVE SweepNodeBVH(_, _, _, _, _, _, _)
SweepNodeBVH(bvh, nodeIdx, start, stop, radius, best, analytic) ==
    IF nodeIdx < 0 \/ nodeIdx >= Len(bvh.nodes) THEN best
    ELSE LET node == bvh.nodes[nodeIdx + 1]
             r3 == <<radius, radius, radius>>
             swMin == v3sub(v3min(start, stop), r3)
             swMax == v3add(v3max(start, stop), r3)
         IN  IF ~AabbOverlap(node.bmin, node.bmax, swMin, swMax) THEN best
             ELSE IF node.rightChild = -1
             THEN SweepLeaf(bvh, node.triStart, node.triStart + node.triCount,
                            start, stop, radius, best, analytic)
             ELSE SweepNodeBVH(bvh, node.rightChild, start, stop, radius,
                               SweepNodeBVH(bvh, nodeIdx + 1, start, stop, radius,
                                            best, analytic),
                               analytic)

\* the loop of PenetrationNodeBVH over the triangles [i, end) of a leaf
RECURSIVE PenetrationLeaf(_, _, _, _, _)
PenetrationLeaf(bvh, i, end, acc, analytic) ==
    IF i >= end THEN acc
    ELSE LET o == analytic[bvh.tris[i + 1]]
         IN  PenetrationLeaf(bvh, i + 1, end,
                             IF o.overlap
                             THEN [outPush |-> v3add(acc.outPush, o.push), didPush |-> TRUE]
                             ELSE acc,
                             analytic)

RECURSIVE PenetrationNodeBVH(_, _, _, _, _, _)
PenetrationNodeBVH(bvh, nodeIdx, center, radius, acc, analytic) ==
    IF nodeIdx < 0 \/ nodeIdx >= Len(bvh.nodes) THEN acc
    ELSE LET node == bvh.nodes[nodeIdx + 1]
         IN  IF \E k \in 1..3 : \/ center[k] + radius < node.bmin[k]
                                \/ center[k] - radius > node.bmax[k]
             THEN acc
             ELSE IF node.rightChild = -1
             THEN PenetrationLeaf(bvh, node.triStart, node.triStart + node.triCount,
                                  acc, analytic)
             ELSE PenetrationNodeBVH(bvh, node.rightChild, center, radius,
                                     PenetrationNodeBVH(bvh, nodeIdx + 1, center, radius,
                                                        acc, analytic),
                                     analytic)

\* the arguments a caller passes by reference, before the call; center is
\* the caller's point
CallerOut(center) ==
    [hitPos |-> <<-1, -1, -1>>, hitNormal |-> <<-1, -1, -1>>, t |-> -1, center |-> center]

\* SweepSphereAgainstStatic from the traversal on, on the BVH its pointer
\* refers to: the value returned and the arguments after the call
SweepTraverse(bvh, start, stop, radius, analytic) ==
    LET best == SweepNodeBVH(bvh, 0, start, stop, radius,
                             [t |-> FLT_MAX, n |-> UnitY], analytic)
    IN  IF best.t > OnePlusEps
        THEN [ret |-> FALSE, out |-> CallerOut(start)]
        ELSE [ret |-> TRUE,
              out |-> [CallerOut(start) EXCEPT
                          !.t = best.t,
                          !.hitNormal = best.n,
                          \* in units of 1e-6
                          !.hitPos = v3add(v3scale(start, Micro),
                                           v3scale(v3sub(stop, start), best.t))]]

\* ResolveSphereAgainstStatic from the traversal on
ResolveTraverse(bvh, center, radius, analytic) ==
    LET acc == PenetrationNodeBVH(bvh, 0, center, radius,
                                  [outPush |-> Zero3, didPush |-> FALSE], analytic)
    IN  [ret |-> acc.didPush,
         out |-> [CallerOut(center) EXCEPT
                     !.center = IF acc.didPush THEN v3add(center, acc.outPush) ELSE center]]

(***************************************************************************)
(* The registry.  g_staticMeshes is a std::vector of entries [handle,      *)
(* bvh]: buf names its allocation (a push_back that finds size = capacity  *)
(* moves the entries to a new one and frees the old) and cap is its        *)
(* capacity.  A Model is a sequence of meshes, a mesh the sequence of the  *)
(* vertex triples of its triangles (<<>> for a mesh without vertices).     *)
(***************************************************************************)
RECURSIVE ModelTris(_, _)
ModelTris(model, position) ==
    IF model = <<>> THEN <<>>
    ELSE [k \in DOMAIN Head(model) |->
             Tri(Head(model)[k][1], Head(model)[k][2], Head(model)[k][3], position)]
         \o ModelTris(Tail(model), position)

\* the index (from 1) of the first entry with the handle, 0 if there is none
Lookup(ph, handle) ==
    LET found == {k \in DOMAIN ph.g_staticMeshes : ph.g_staticMeshes[k].handle = handle}
    IN  IF found = {} THEN 0 ELSE Min(found)

\* g_staticMeshes.push_back(entry); grown is the capacity the library
\* gives the vector when it has to grow
PushBack(ph, entry, grown) ==
    IF Len(ph.g_staticMeshes) < ph.cap
    THEN [ph EXCEPT !.g_staticMeshes = Append(@, entry)]
    ELSE [ph EXCEPT !.g_staticMeshes = Append(@, entry), !.buf = @ + 1, !.cap = grown]

Returned(ph, op, handle, ret) ==
    [ph EXCEPT !.call = [NoCall EXCEPT !.op = op, !.handle = handle, !.ret = ret]]

\* RegisterStaticMeshFromModel returns ret for a model of the triangles tris
Registered(ph, tris, ret) ==
    [ph EXCEPT !.call = [NoCall EXCEPT !.op = "Register", !.ret = ret, !.tris = tris],
               !.returned = IF ret # -1 THEN Append(@, ret) ELSE @]

\* RegisterStaticMeshFromModel that hands out the handle of the last entry
RegisterStaticMeshFromModel_Reuse(ph, model, position, grown) ==
    LET tris == ModelTris(model, position)
        handle == Len(ph.g_staticMeshes) + 1
    IN  IF Len(model) <= 0 \/ tris = <<>> THEN Registered(ph, tris, -1)
        ELSE Registered(PushBack(ph, [handle |-> handle, bvh |-> Build(tris)], grown),
                        tris, handle)

RegisterStaticMeshFromModel(ph, model, position, grown) ==
    LET tris == ModelTris(model, position)
        handle == ph.g_nextHandle
    IN  IF Len(model) <= 0 THEN Registered(ph, tris, -1)
        ELSE IF tris = <<>> THEN Registered(ph, tris, -1)
        ELSE Registered([PushBack(ph, [handle |-> handle, bvh |-> Build(tris)], grown)
                            EXCEPT !.g_nextHandle = handle + 1],
                        tris, handle)

\* UnregisterStaticMesh that erases the entry at the index the handle counts
UnregisterStaticMesh_ByIndex(ph, handle) ==
    IF handle \in DOMAIN ph.g_staticMeshes
    THEN Returned([ph EXCEPT !.g_staticMeshes = Remove(@, handle)], "Unregister", handle, 0)
    ELSE Returned(ph, "Unregister", handle, 0)

UnregisterStaticMesh(ph, handle) ==
    LET k == Lookup(ph, handle)
    IN  IF k = 0 THEN Returned(ph, "Unregister", handle, 0)
        ELSE Returned([ph EXCEPT !.g_staticMeshes = Remove(@, k)], "Unregister", handle, 0)

ShutdownPhysics(ph) ==
    Returned([ph EXCEPT !.g_staticMeshes = <<>>], "Shutdown", 0, 0)

\* a query up to the release of g_meshMutex: the lookup of the entry
QueryLookup(ph, kind, handle, start, stop, radius) ==
    LET k == Lookup(ph, handle)
    IN  IF k = 0 \/ ph.g_staticMeshes[k].bvh.nodes = <<>>
        THEN [ph EXCEPT !.query = NoQuery,
                        !.call = [op |-> kind, handle |-> handle, ret |-> FALSE,
                                  start |-> start, stop |-> stop,
                                  out |-> CallerOut(start), tris |-> <<>>]]
        ELSE [ph EXCEPT !.query = [pc |-> "traverse", kind |-> kind, handle |-> handle,
                                   ptr |-> [buf |-> ph.buf, idx |-> k],
                                   start |-> start, stop |-> stop, radius |-> radius]]

\* bvhPtr points into the vector's current allocation, at a live entry
Live(ph, ptr) == ptr.buf = ph.buf /\ ptr.idx \in DOMAIN ph.g_staticMeshes

\* the outcomes of the traversal of the BVH at bvhPtr
Traversal(bvh, q, analytic) ==
    IF q.kind = "Sweep"
    THEN SweepTraverse(bvh, q.start, q.stop, q.radius, analytic)
    ELSE ResolveTraverse(bvh, q.start, q.radius, analytic)

\* a query from the release of the mutex on, with the result res of the
\* traversal
QueryReturn(ph, res) ==
    [ph EXCEPT !.query = NoQuery,
               !.call = [op |-> ph.query.kind, handle |-> ph.query.handle,
                         ret |-> res.ret, start |-> ph.query.start,
                         stop |-> ph.query.stop, out |-> res.out, tris |-> <<>>]]

(***************************************************************************)
(* Calls of the physics backend.  The meshes registered, the points and    *)
(* radii queried and the handles passed are drawn from small sets.         *)
(***************************************************************************)
\* most handles RegisterStaticMeshFromModel hands out in a run
MaxHandles == 3
\* most triangles of a mesh whose BVH is built
MaxTris == 6

\* the vertices of a triangle at (x, y, z), with its edges along x and y
TriAt(x, y, z) == <<<<x, y, z>>, <<x + 1, y, z>>, <<x, y + 1, z>>>>

TriPalette == {TriAt(0, 0, 0), TriAt(2, 0, 0), TriAt(4, 0, 0), TriAt(0, 6, 0), TriAt(0, 0, 8)}

\* every model of one mesh of 1..MaxTris triangles of the palette
BuildModels == {<<mesh>> : mesh \in UNION {[1..n -> TriPalette] : n \in 1..MaxTris}}

\* a model without meshes, one whose mesh has no vertices, and one of a
\* mesh without vertices and two meshes of one triangle each
RegModels ==
    {<<>>,
     <<<<>>>>,
     <<<<>>, <<TriAt(0, 0, 0)>>, <<TriAt(4, 0, 0)>>>>}

Positions == {Zero3}
QueryPoints == {Zero3, <<5, 0, 0>>}
Radii == {0, 1}
Handles == -1..(MaxHandles + 1)

\* the outcomes of the analytic tests on one triangle
TValues == {0, OnePlusEps, FLT_MAX}
\* a sweep reads only t and n, a resolve only overlap and push
Outcomes(kind) ==
    IF kind = "Sweep" THEN [t : TValues, n : {UnitY}, overlap : {FALSE}, push : {UnitY}]
    ELSE [t : {FLT_MAX}, n : {UnitY}, overlap : BOOLEAN, push : {UnitY}]
Analytic(bvh, kind) == [Range(bvh.tris) -> Outcomes(kind)]

\* the capacities a vector of n elements may get when it grows
Growth(n) == IF n = 0 THEN {1} ELSE {n + 1, 2 * n}

PhysRegister(models) ==
    /\ phys.g_nextHandle <= MaxHandles
    /\ \E model \in models, position \in Positions, grown \in Growth(Len(phys.g_staticMeshes)) :
          phys' = RegisterStaticMeshFromModel(phys, model, position, grown)
    /\ UNCHANGED <<netVars, player>>

PhysUnregister ==
    /\ \E handle \in Handles : phys' = UnregisterStaticMesh(phys, handle)
    /\ UNCHANGED <<netVars, player>>

PhysShutdown ==
    /\ phys' = ShutdownPhysics(phys)
    /\ UNCHANGED <<netVars, player>>

\* a sweep that no other call overlaps
PhysSweep ==
    /\ phys.query.pc = "idle"
    /\ \E handle \in Handles, start \in QueryPoints, stop \in QueryPoints, radius \in Radii :
          LET ph == QueryLookup(phys, "Sweep", handle, start, stop, radius)
              bvh == ph.g_staticMeshes[ph.query.ptr.idx].bvh
          IN  IF ph.query.pc = "idle" THEN phys' = ph
              ELSE \E analytic \in Analytic(bvh, "Sweep") :
                      phys' = QueryReturn(ph, Traversal(bvh, ph.query, analytic))
    /\ UNCHANGED <<netVars, player>>

\* a resolve that no other call overlaps
PhysResolve ==
    /\ phys.query.pc = "idle"
    /\ \E handle \in Handles, center \in QueryPoints, radius \in Radii :
          LET ph == QueryLookup(phys, "Resolve", handle, center, center, radius)
              bvh == ph.g_staticMeshes[ph.query.ptr.idx].bvh
          IN  IF ph.query.pc = "idle" THEN phys' = ph
              ELSE \E analytic \in Analytic(bvh, "Resolve") :
                      phys' = QueryReturn(ph, Traversal(bvh, ph.query, analytic))
    /\ UNCHANGED <<netVars, player>>

\* the main loop calls the backend, one call at a time
NextPhysics ==
    \/ PhysRegister(RegModels)
    \/ PhysUnregister
    \/ PhysShutdown
    \/ PhysSweep
    \/ PhysResolve

SpecPhysics == Init /\ [][NextPhysics]_vars

(***************************************************************************)
(* A query of a second thread against the calls of the main loop: the      *)
(* lookup happens under g_meshMutex, the traversal after its release, and  *)
(* the registry calls of the main loop fall between the two.               *)
(***************************************************************************)
QueryBegin ==
    /\ phys.query.pc = "idle"
    /\ \E kind \in {"Sweep", "Resolve"}, handle \in Handles, start \in QueryPoints,
          radius \in Radii :
          phys' = QueryLookup(phys, kind, handle, start, <<5, 0, 0>>, radius)
    /\ UNCHANGED <<netVars, player>>

\* what a traversal through a dangling bvhPtr may hand back
Garbage(q) ==
    [ret : BOOLEAN,
     out : {CallerOut(q.start), [CallerOut(q.start) EXCEPT !.t = 0, !.center = Zero3]}]

\* the traversal reads *bvhPtr: the BVH now stored there, or freed memory
QueryEnd ==
    /\ phys.query.pc = "traverse"
    /\ IF Live(phys, phys.query.ptr)
       THEN LET bvh == phys.g_staticMeshes[phys.query.ptr.idx].bvh
            IN  \E analytic \in Analytic(bvh, phys.query.kind) :
                   phys' = QueryReturn(phys, Traversal(bvh, phys.query, analytic))
       ELSE \E res \in Garbage(phys.query) : phys' = QueryReturn(phys, res)
    /\ UNCHANGED <<netVars, player>>

NextPhysicsThreads ==
    \/ PhysRegister(RegModels)
    \/ PhysUnregister
    \/ PhysShutdown
    \/ QueryBegin
    \/ QueryEnd

SpecPhysicsThreads == Init /\ [][NextPhysicsThreads]_vars

\* the entry the query looked up is still the one at bvhPtr
PointerValid ==
    /\ Live(phys, phys.query.ptr)
    /\ phys.g_staticMeshes[phys.query.ptr.idx].handle = phys.query.handle

\* C15: while a query traverses the BVH it looked up, no concurrent
\* registration or unregistration frees, moves or replaces that BVH: bvhPtr
\* stays valid until the query returns.
C15_LockFreeQuerySafe == phys.query.pc = "traverse" => PointerValid

\* the handles of the registered meshes
Registered_Handles(ph) == {ph.g_staticMeshes[k].handle : k \in DOMAIN ph.g_staticMeshes}

\* the step is a call of op
Called(op) == phys'.call.op = op /\ phys' # phys

\* C16: a sweep or resolve with a handle that is not registered (never
\* returned, already unregistered, or -1) returns false and leaves hitPos,
\* hitNormal, t and center as they were; UnregisterStaticMesh of such a
\* handle removes no entry, and of a registered one removes only its entry.
C16_StaleHandlesSafe ==
    [][LET c == phys'.call
       IN  /\ (c.op \in {"Sweep", "Resolve"} /\ Lookup(phys', c.handle) = 0)
                 => /\ c.ret = FALSE
                    /\ c.out = CallerOut(c.start)
                    /\ phys'.g_staticMeshes = phys.g_staticMeshes
           /\ (Called("Unregister") /\ Lookup(phys, c.handle) = 0)
                 => phys'.g_staticMeshes = phys.g_staticMeshes
           /\ (Called("Unregister") /\ Lookup(phys, c.handle) # 0)
                 => /\ Len(phys'.g_staticMeshes) = Len(phys.g_staticMeshes) - 1
                    /\ \A e \in Range(phys.g_staticMeshes) :
                          e.handle # c.handle => e \in Range(phys'.g_staticMeshes)]_vars

\* a handle unregistered before is unregistered again and then swept, while
\* another mesh stays registered
C16_Witness ==
    /\ phys.call.op = "Sweep"
    /\ phys.call.handle = 1
    /\ phys.returned = <<1, 2>>
    /\ Registered_Handles(phys) = {2}
    /\ phys.call.ret = FALSE

\* C17: the first successful registration returns 1, each later one a
\* handle greater than every handle returned before, across unregistrations
\* and shutdowns; no two entries share a handle; a registration without
\* triangles returns -1, adds no entry and consumes no handle.
C17_HandleAllocation ==
    [][Called("Register") =>
          LET c == phys'.call
          IN  /\ c.tris = <<>>
                    => /\ c.ret = -1
                       /\ phys'.g_staticMeshes = phys.g_staticMeshes
                       /\ phys'.g_nextHandle = phys.g_nextHandle
                       /\ phys'.returned = phys.returned
              /\ c.tris # <<>>
                    => /\ phys.returned = <<>> => c.ret = 1
                       /\ \A k \in DOMAIN phys.returned : c.ret > phys.returned[k]
                       /\ phys'.returned = Append(phys.returned, c.ret)
                       /\ Len(phys'.g_staticMeshes) = Len(phys.g_staticMeshes) + 1
                       /\ phys'.g_staticMeshes[Len(phys'.g_staticMeshes)].handle = c.ret
              /\ \A j, k \in DOMAIN phys'.g_staticMeshes :
                    phys'.g_staticMeshes[j].handle = phys'.g_staticMeshes[k].handle => j = k]_vars

\* a registration after an unregistration and a shutdown
C17_Witness ==
    /\ phys.call.op = "Register"
    /\ phys.call.ret = 3
    /\ phys.returned = <<1, 2, 3>>
    /\ Registered_Handles(phys) = {3}

\* C20: a sweep whose start and end are the same point returns false,
\* whatever the sphere overlaps there.
C20_DegenerateSweep ==
    (phys.call.op = "Sweep" /\ phys.call.start = phys.call.stop) => phys.call.ret = FALSE

\* a zero-length sweep at a vertex of a registered triangle
C20_Witness ==
    /\ phys.call.op = "Sweep"
    /\ phys.call.start = Zero3
    /\ phys.call.stop = Zero3
    /\ Lookup(phys, phys.call.handle) # 0
    /\ phys.call.ret = FALSE

(***************************************************************************)
(* The build of the BVH of every mesh of up to MaxTris triangles.          *)
(***************************************************************************)
NextBVH ==
    /\ phys.g_staticMeshes = <<>>
    /\ PhysRegister(BuildModels)

SpecBVH == Init /\ [][NextBVH]_vars

\* the BVH of the mesh that the last call registered
Built == phys.g_staticMeshes[Lookup(phys, phys.call.ret)].bvh
HasBuilt == phys.call.op = "Register" /\ phys.call.ret # -1

\* the indices of the nodes, of the leaves and of the internal nodes
NodeIdx(bvh) == 0..(Len(bvh.nodes) - 1)
Leaves(bvh) == {k \in NodeIdx(bvh) : bvh.nodes[k + 1].rightChild = -1}
Internal(bvh) == NodeIdx(bvh) \ Leaves(bvh)

\* the leaves whose range holds the triangle i
Owners(bvh, i) ==
    {k \in Leaves(bvh) :
        /\ bvh.nodes[k + 1].triStart <= i
        /\ i < bvh.nodes[k + 1].triStart + bvh.nodes[k + 1].triCount}

\* the nodes that have the node m as a child
Parents(bvh, m) ==
    {k \in Internal(bvh) : k + 1 = m \/ bvh.nodes[k + 1].rightChild = m}

Count(seq, x) == Cardinality({k \in DOMAIN seq : seq[k] = x})
IsPermutation(a, b) ==
    /\ Len(a) = Len(b)
    /\ \A x \in Range(a) \cup Range(b) : Count(a, x) = Count(b, x)

\* C18: after Build of a non-empty list of N triangles every triangle is in
\* the range of exactly one leaf, the ranges lie in [0, N), a leaf holds 1
\* to 4 triangles, an internal node has its left child at index+1 and its
\* right child at a valid rightChild > index+1, every node but the root is
\* the child of exactly one node, and tris is a permutation of the input.
C18_Ownership ==
    HasBuilt =>
       LET bvh == Built
           N == Len(phys.call.tris)
       IN  /\ \A i \in 0..(N - 1) : Cardinality(Owners(bvh, i)) = 1
           /\ \A k \in Leaves(bvh) :
                 /\ bvh.nodes[k + 1].triCount \in 1..LeafSize
                 /\ bvh.nodes[k + 1].triStart >= 0
                 /\ bvh.nodes[k + 1].triStart + bvh.nodes[k + 1].triCount <= N
           /\ \A k \in Internal(bvh) :
                 /\ k + 1 \in NodeIdx(bvh)
                 /\ bvh.nodes[k + 1].rightChild > k + 1
                 /\ bvh.nodes[k + 1].rightChild \in NodeIdx(bvh)
           /\ \A m \in NodeIdx(bvh) \ {0} : Cardinality(Parents(bvh, m)) = 1
           /\ Parents(bvh, 0) = {}
           /\ IsPermutation(bvh.tris, phys.call.tris)

\* a tree of two nested internal nodes whose triangles were reordered
C18_Witness ==
    /\ HasBuilt
    /\ Cardinality(Internal(Built)) >= 2
    /\ Built.tris # phys.call.tris

Inside(p, node) == \A ax \in 1..3 : node.bmin[ax] <= p[ax] /\ p[ax] <= node.bmax[ax]

\* C19: the box of a leaf contains the three vertices of every triangle of
\* its range, the box of an internal node the boxes of both its children.
C19_Containment ==
    HasBuilt =>
       LET bvh == Built
       IN  /\ \A k \in Leaves(bvh) :
                 \A i \in bvh.nodes[k + 1].triStart
                            ..(bvh.nodes[k + 1].triStart + bvh.nodes[k + 1].triCount - 1) :
                    /\ Inside(bvh.tris[i + 1].a, bvh.nodes[k + 1])
                    /\ Inside(bvh.tris[i + 1].b, bvh.nodes[k + 1])
                    /\ Inside(bvh.tris[i + 1].c, bvh.nodes[k + 1])
           /\ \A k \in Internal(bvh) :
                 \A m \in {k + 1, bvh.nodes[k + 1].rightChild} :
                    /\ Inside(bvh.nodes[m + 1].bmin, bvh.nodes[k + 1])
                    /\ Inside(bvh.nodes[m + 1].bmax, bvh.nodes[k + 1])

\* an internal node whose children have different boxes, one of them a leaf
\* of several different triangles
C19_Witness ==
    /\ HasBuilt
    /\ \E k \in Internal(Built) :
          /\ Built.nodes[k + 2].bmax # Built.nodes[Built.nodes[k + 1].rightChild + 1].bmax
          /\ \E m \in Leaves(Built) \cap {k + 1, Built.nodes[k + 1].rightChild} :
                /\ Built.nodes[m + 1].triCount >= 2
                /\ Built.tris[Built.nodes[m + 1].triStart + 1]
                      # Built.tris[Built.nodes[m + 1].triStart + 2]

(***************************************************************************)
(* The movement integrator: Player::UpdateBody against a world model.      *)
(* Lengths are counted in units of 0.001f (Milli to 1.0f), velocities in   *)
(* units per second and the frame time in milliseconds, so that            *)
(* velocity * delta is (velocity * ms) / 1000 units.  A quotient is        *)
(* rounded to the nearest unit, as a float is to the nearest float.        *)
(*                                                                         *)
(* The world is one static mesh: a flat platform in the plane y = 0, with  *)
(* normal (0, 1, 0), that reaches from -Extent to Extent in x and further  *)
(* in z than any body goes.  The body starts above its middle.             *)
(***************************************************************************)
GRAVITY == 32
JUMP_FORCE == 12
maxIters == 3
playerRadius == Milli \div 2

\* half the width of the platform
Extent == 2 * Milli
\* the furthest a body is walked, in 1.0f
MaxX == 4
\* GetFrameTime(), in milliseconds
Deltas == {25, 50}
\* the horizontal speed (units per second) that the acceleration code
\* arrives at while a movement key is held
WalkSpeed == 20 * Milli

RoundDiv(a, b) == (2 * a + b) \div (2 * b)
\* v * delta, delta in milliseconds
Moved(v, delta) == RoundDiv(v * delta, Milli)

\* F(v), with v computed once: a local variable of the code
Local(v, F(_)) == CHOOSE y \in {F(x) : x \in {v}} : TRUE

\* SweepSphereTriangle's face test against the platform, and its bound on
\* bestT.  t is the quotient nDotOs / nDotD, kept as the pair; for sign -1
\* and then +1 the plane is lifted by sign * radius, and t is taken if it
\* is >= 0, below bestT, and the point it gives lies over the platform.
\* A segment that is parallel to the platform is skipped by the face test;
\* every such segment of a body is further than radius from the plane, out
\* of reach of the edge capsules and the vertex spheres too.
SweepFace(best, sign, start, d, radius) ==
    LET nDotD  == d[2]
        nDotOs == sign * radius - start[2]
        \* t = nDotOs / nDotD with a positive denominator
        num    == IF nDotD < 0 THEN -nDotOs ELSE nDotOs
        den    == IF nDotD < 0 THEN -nDotD ELSE nDotD
        hitX   == start[1] + RoundDiv(d[1] * num, den)
    IN  IF /\ num >= 0
           /\ (~best.hit \/ num * best.den < best.num * den)
           /\ -Extent <= hitX /\ hitX <= Extent
        THEN [hit |-> TRUE, num |-> num, den |-> den, n |-> v3scale(UnitY, sign)]
        ELSE best

\* CollidableModel::SweepSphere -> SweepSphereAgainstStatic on the platform
WorldSweep(start, target, radius) ==
    LET d    == v3sub(target, start)
        none == [hit |-> FALSE, num |-> 0, den |-> 1, n |-> UnitY]
        Result(faces) ==
            IF d = Zero3 \/ ~faces.hit \/ faces.num > faces.den
            THEN [hit |-> FALSE, hitPos |-> target, hitNormal |-> UnitY]
            ELSE [hit       |-> TRUE,
                  hitPos    |-> <<start[1] + RoundDiv(d[1] * faces.num, faces.den),
                                  start[2] + RoundDiv(d[2] * faces.num, faces.den),
                                  start[3] + RoundDiv(d[3] * faces.num, faces.den)>>,
                  hitNormal |-> faces.n]
    IN  IF d[2] = 0 THEN Result(none)
        ELSE Local(SweepFace(none, -1, start, d, radius),
                   LAMBDA lower : Local(SweepFace(lower, 1, start, d, radius), Result))

\* after a hit: the body is put at the point of impact, lifted by 0.001
\* along the normal, and what is left of the motion slides along the
\* surface; a normal that points up (normal.y > 0.5) grounds the body
Slide(st, target, sw) ==
    LET travel == v3sub(target, sw.hitPos)
        vn     == v3dot(travel, sw.hitNormal)
        slide  == v3sub(travel, v3scale(sw.hitNormal, vn))
        up     == sw.hitNormal[2] > 0
    IN  [curr       |-> v3add(sw.hitPos, sw.hitNormal),
         remaining  |-> slide,
         isGrounded |-> up \/ st.isGrounded,
         vy         |-> IF up THEN 0 ELSE st.vy,
         groundHit  |-> up \/ st.groundHit]

\* the loop of UpdateBody from iteration iter on: st = [curr, remaining,
\* isGrounded, vy, groundHit]
RECURSIVE SweepLoop(_, _)
SweepLoop(st, iter) ==
    IF iter >= maxIters THEN st
    ELSE LET target == v3add(st.curr, st.remaining)
         IN  Local(WorldSweep(st.curr, target, playerRadius),
                   LAMBDA sw : IF ~sw.hit THEN [st EXCEPT !.curr = target]
                               ELSE Local(Slide(st, target, sw),
                                          LAMBDA next : SweepLoop(next, iter + 1)))

\* the end of UpdateBody: the body takes the position the loop arrived at
\* and the velocity of the motion it made, and is put on y = 0 below it
Arrive(startPos, swept, delta) ==
    LET position == swept.curr
        velocity == <<RoundDiv((position[1] - startPos[1]) * Milli, delta),
                      RoundDiv((position[2] - startPos[2]) * Milli, delta),
                      0>>
    IN  IF position[2] <= 0
        THEN [body |-> [position |-> <<position[1], 0, position[3]>>,
                        velocity |-> <<velocity[1], 0, velocity[3]>>,
                        isGrounded |-> TRUE],
              groundHit |-> swept.groundHit]
        ELSE [body |-> [position |-> position, velocity |-> velocity,
                        isGrounded |-> swept.isGrounded],
              groundHit |-> swept.groundHit]

\* Player::UpdateBody with enableSourceBhop = false.  hvelx is what the
\* code computes for velocity.x from the keys, the look direction and the
\* friction; the body keeps to the plane z = 0.
UpdateBody(body, jumpPressed, hvelx, delta) ==
    LET vy1      == IF ~body.isGrounded THEN body.velocity[2] - GRAVITY * delta
                    ELSE body.velocity[2]
        jump     == body.isGrounded /\ jumpPressed
        vy2      == IF jump THEN JUMP_FORCE * Milli ELSE vy1
        grounded == body.isGrounded /\ ~jump
        startPos == body.position
        remaining == <<Moved(hvelx, delta), Moved(vy2, delta), 0>>
    IN  Local(SweepLoop([curr |-> startPos, remaining |-> remaining,
                         isGrounded |-> grounded, vy |-> vy2,
                         groundHit |-> FALSE], 0),
              LAMBDA swept : Arrive(startPos, swept, delta))

\* a frame with no key held: a body that was never moved has dir = 0 and
\* no horizontal velocity, and the friction code leaves both at 0; a body
\* that stands after a walk has been stopped by the friction
TickIdle ==
    /\ \E delta \in Deltas :
          \E res \in {UpdateBody(player.body, FALSE, 0, delta)} :
              player' = [player EXCEPT !.body = res.body,
                                       !.groundHit = res.groundHit,
                                       !.ticked = TRUE]
    /\ UNCHANGED <<netVars, phys>>

\* a frame with a movement key held, pressed while the body rests
TickWalk ==
    /\ player.body.isGrounded
    /\ player.body.velocity[2] = 0
    /\ \E delta \in Deltas :
          \E res \in {UpdateBody(player.body, FALSE, WalkSpeed, delta)} :
              /\ res.body.position[1] <= MaxX * Milli
              /\ player' = [body |-> res.body, groundHit |-> res.groundHit,
                            input |-> TRUE, ticked |-> TRUE]
    /\ UNCHANGED <<netVars, phys>>

\* a frame with the jump key pressed, the body standing still over the
\* platform or clear of its edge
TickJump ==
    /\ player.body.isGrounded
    /\ \/ player.body.position[1] <= Extent
       \/ player.body.position[1] > Extent + playerRadius
    /\ \E delta \in Deltas :
          \E res \in {UpdateBody(player.body, TRUE, 0, delta)} :
              player' = [body |-> res.body, groundHit |-> res.groundHit,
                         input |-> TRUE, ticked |-> TRUE]
    /\ UNCHANGED <<netVars, phys>>

NextPlayer ==
    \/ TickIdle
    \/ TickWalk
    \/ TickJump

\* the game loop calls UpdateBody every frame
SpecPlayer == Init /\ [][NextPlayer]_vars /\ WF_vars(TickIdle)

\* C21: with no movement or jump input ever, the body that starts at
\* (0, 5, 0) with zero velocity over the platform eventually has
\* position.y = 0, velocity.y = 0 and isGrounded, and keeps them from then on.
C21_Grounding ==
    <>[](\/ player.input
         \/ /\ player.body.position[2] = 0
            /\ player.body.velocity[2] = 0
            /\ player.body.isGrounded)

\* where the body comes to rest instead: a radius and the lift of 0.001
\* above the platform
C21_RestsOnSurface ==
    <>[](\/ player.input
         \/ /\ player.body.position[2] = playerRadius + 1
            /\ player.body.velocity[2] = 0
            /\ player.body.isGrounded)

\* C30: a tick in which no sweep hit a surface with normal.y > 0.5 and that
\* ends above y = 0 ends with isGrounded false.
C30_GroundedTracksContact ==
    [][(~player'.groundHit /\ player'.body.position[2] > 0)
          => ~player'.body.isGrounded]_vars

\* a grounded body beyond the edge of the platform, above y = 0
C30_PastTheLedge ==
    /\ player.body.position[1] > Extent + playerRadius
    /\ player.body.position[2] > 0
    /\ player.body.isGrounded

(***************************************************************************)
(* Further properties of the server's slot table.                          *)
(***************************************************************************)
\* the PLAYER_UPDATE datagrams of player id, with a zero position, that
\* the step sent to address a
Intros(id, a) ==
    {n \in DOMAIN sent' : /\ sent'[n].type = "PLAYER_UPDATE"
                          /\ sent'[n].playerId = id
                          /\ sent'[n].pos = 0
                          /\ sent'[n].to = a}

\* the dispatch of a CONNECT that activates a slot
Joins(i) ==
    /\ Dispatches(i, "CONNECT")
    /\ nm[i].mode = "Server"
    /\ ActiveSlots(nm'[i]) # ActiveSlots(nm[i])

\* C22 (its server half): a CONNECT that allocates a slot with the new ID N
\* sends exactly one PLAYER_UPDATE of player N with a zero position to
\* every slot that was active before it, and none to the joining address.
C22_JoinIntro ==
    [][\A i \in Inst :
          Joins(i) =>
             LET N == nm[i].nextId
             IN  /\ \A k \in ActiveSlots(nm[i]) :
                       Cardinality(Intros(N, nm[i].clients[k].addr)) = 1
                 /\ Intros(N, last'.arg.from) = {}]_vars

\* C26: no two active slots have the same player ID, and no two the same
\* address and port.
C26_UniqueSlots ==
    \A i \in Inst :
       \A k, m \in ActiveSlots(nm[i]) :
          k # m => /\ nm[i].clients[k].id # nm[i].clients[m].id
                   /\ nm[i].clients[k].addr # nm[i].clients[m].addr

(***************************************************************************)
(* The server and the DISCONNECTs of its peers: as under any traffic, and  *)
(* a DISCONNECT carries any player ID, its sender's or another's.          *)
(***************************************************************************)
ReleaseTraffic ==
    {From(ConnectPacket, a) : a \in Peers}
    \cup {From(DisconnectPacket(id), a) : id \in 0..2, a \in Peers}
    \cup {From(PlayerUpdatePacket(1, 1), a) : a \in Peers}

ReleaseReceive(i) ==
    /\ nm[i].recvQueue = <<>>
    /\ nm[i].local = <<>>
    /\ Receive(i, {dg \in ReleaseTraffic : dg.type = "CONNECT" => Joinable(i)})

NextRelease ==
    \/ StartServer(1)
    \/ StopServer(1)
    \/ StopServerEnd(1)
    \/ Update(1)
    \/ Dispatch(1)
    \/ ThreadTest(1)
    \/ ThreadRetryTest(1)
    \/ ThreadTimeout(1)
    \/ ReleaseReceive(1)

SpecRelease == Init /\ [][NextRelease]_vars

\* C23: a slot goes from active to inactive only in the dispatch of a
\* DISCONNECT whose source address and port are the slot's (whatever player
\* ID it carries) or in StartServer(); a DISCONNECT from an address that
\* holds no slot changes no slot, sends nothing and invokes no callback.
C23_ReleaseByOwner ==
    [][\A i \in Inst :
          /\ \A k \in Slots :
                (nm[i].clients[k].active /\ ~nm'[i].clients[k].active)
                => \/ last'.op = "StartServer" /\ last'.inst = i
                   \/ /\ Dispatches(i, "DISCONNECT")
                      /\ nm[i].mode = "Server"
                      /\ last'.arg.from = nm[i].clients[k].addr
          /\ (/\ Dispatches(i, "DISCONNECT")
              /\ nm[i].mode = "Server"
              /\ Holders(nm[i], last'.arg.from) = {})
             => /\ nm'[i].clients = nm[i].clients
                /\ sent' = <<>>
                /\ calls' = <<>>]_vars

\* a DISCONNECT that carries another player's ID has released the slot of
\* its sender, and the slot of a peer on the same IP is still active
C23_Witness ==
    /\ last.op = "Dispatch"
    /\ last.arg.type = "DISCONNECT"
    /\ calls # <<>>
    /\ calls[1].fn = "OnPlayerLeft"
    /\ calls[1].id # last.arg.playerId
    /\ Holders(nm[1], last.arg.from) = {}
    /\ \E k \in ActiveSlots(nm[1]) :
          /\ nm[1].clients[k].addr.ip = last.arg.from.ip
          /\ nm[1].clients[k].id = last.arg.playerId

(***************************************************************************)
(* Further properties of the client's session.                             *)
(***************************************************************************)
\* C24: GetLocalId() returns 0 whenever the client is not connected.
C24_LocalIdZeroUnlessConnected ==
    \A i \in Inst : ~IsConnected(nm[i]) => GetLocalId(nm[i]) = 0

\* C27: once Disconnect() has sent its DISCONNECT and begun the shutdown of
\* the receive thread, the retry timer sends no further CONNECT.
C27_NoConnectAfterDisconnect ==
    [][\A i \in Inst :
          (nm[i].mpc = "disc_join" /\ Retries(i)) => Connects(sent') = 0]_vars

\* C28: a datagram that was put in the receive queue in one session (from
\* StartServer() or Connect() to StopServer() or Disconnect()) is never
\* dispatched to a handler in a later session.
C28_NoSessionLeak ==
    [][\A i \in Inst :
          (\E type \in {"CONNECT", "CONNECT_ACK", "DISCONNECT", "PLAYER_UPDATE"} :
              Dispatches(i, type))
          => hist[i].stale = 0]_vars

\* C28, its case of the CONNECT_ACK: one left over from an earlier session
\* does not connect the client of a later one.
C28_StaleAck ==
    [][\A i \in Inst :
          (Dispatches(i, "CONNECT_ACK") /\ nm[i].mode = "Client" /\ hist[i].stale > 0)
          => ~nm'[i].connected]_vars

\* C29: OnPlayerJoined is invoked for the local player at most once between
\* Connect() and the next Disconnect() or kick, and localId does not change
\* while the client is connected: a CONNECT_ACK dispatched by a client that
\* is connected invokes nothing and leaves localId.
C29_JoinCallbackOnce ==
    [][\A i \in Inst :
          (Dispatches(i, "CONNECT_ACK") /\ nm[i].mode = "Client" /\ nm[i].connected)
          => /\ calls' = <<>>
             /\ nm'[i].localId = nm[i].localId]_vars

(***************************************************************************)
(* The build of a BVH, call by call of BuildNode.                          *)
(***************************************************************************)
\* the triangles of the meshes that are built call by call
StepPalette == {TriAt(0, 0, 0), TriAt(2, 0, 0), TriAt(0, 6, 0)}
StepModels == {<<mesh>> : mesh \in UNION {[1..n -> StepPalette] : n \in 1..MaxTris}}

\* BVH::Build: tris = inTris, nodes cleared, BuildNode(0, size) called
BuildBegin ==
    /\ phys.build.pc = "idle"
    /\ \E model \in StepModels :
          LET inTris == ModelTris(model, Zero3)
          IN  phys' = [phys EXCEPT !.build =
                          [pc |-> "build", nodes |-> <<>>, tris |-> inTris,
                           calls |-> <<[start |-> 0, end |-> Len(inTris), parent |-> -1]>>]]
    /\ UNCHANGED <<netVars, player>>

BuildStep ==
    /\ phys.build.pc = "build"
    /\ phys.build.calls # <<>>
    /\ phys' = [phys EXCEPT !.build = BuildNodeCall(phys.build)]
    /\ UNCHANGED <<netVars, player>>

\* Build returns when the outermost BuildNode has
BuildEnd ==
    /\ phys.build.pc = "build"
    /\ phys.build.calls = <<>>
    /\ phys' = [phys EXCEPT !.build.pc = "built"]
    /\ UNCHANGED <<netVars, player>>

NextBuild ==
    \/ BuildBegin
    \/ BuildStep
    \/ BuildEnd

SpecBuild == Init /\ [][NextBuild]_vars

\* what Build has built call by call is what the recursion builds
BuiltAsBuild ==
    phys.build.pc = "built"
    => \E model \in StepModels :
          /\ IsPermutation(ModelTris(model, Zero3), phys.build.tris)
          /\ Build(ModelTris(model, Zero3))
                = [nodes |-> phys.build.nodes, tris |-> phys.build.tris]

\* the step is a call of BuildNode
Builds ==
    /\ phys.build.pc = "build"
    /\ phys.build.calls # <<>>
    /\ phys'.build.pc = "build"

\* the nodes that the calls still to be made can add at most: a call on n
\* triangles adds up to 2n - 1
RECURSIVE NodesLeft(_)
NodesLeft(pending) ==
    IF pending = <<>> THEN 0
    ELSE 2 * (Head(pending).end - Head(pending).start) - 1 + NodesLeft(Tail(pending))

\* C25: Build terminates (every call of BuildNode is on a non-empty range
\* and lowers the number of nodes that can still be added), and every call
\* on more than 4 triangles makes its two recursive calls on [start, split)
\* and [split, end) with start < split < end, both non-empty and strictly
\* smaller than [start, end).
C25_BuildProgress ==
    [][Builds =>
          LET call  == Head(phys.build.calls)
              left  == phys'.build.calls[1]
              right == phys'.build.calls[2]
          IN  /\ call.start < call.end
              /\ NodesLeft(phys'.build.calls) < NodesLeft(phys.build.calls)
              /\ IF call.end - call.start <= LeafSize
                 THEN phys'.build.calls = Tail(phys.build.calls)
                 ELSE /\ phys'.build.calls = <<left, right>> \o Tail(phys.build.calls)
                      /\ left.start = call.start
                      /\ left.end = right.start
                      /\ right.end = call.end
                      /\ call.start < left.end /\ left.end < call.end
                      /\ left.end - left.start < call.end - call.start
                      /\ right.end - right.start < call.end - call.start]_vars

\* a build that is over, of MaxTris triangles that are all the same: the
\* partition left one side empty and the root was split in the middle
C25_Witness ==
    /\ phys.build.pc = "built"
    /\ Len(phys.build.tris) = MaxTris
    /\ Cardinality(Range(phys.build.tris)) = 1
    /\ phys.build.nodes[1].rightChild > 1
    /\ phys.build.nodes[2].triCount = MaxTris \div 2

=============================================================================
